---- MODULE Spec2Model ----
(***************************************************************************)
(* A model of the intelephense source-analysis core:                       *)
(*   - CompletionProvider and its five completion strategies               *)
(*     (src/src/completionProvider.ts),                                    *)
(*   - ParsedDocument / ParsedDocumentStore (src/unnamed/part_000).        *)
(* Strings that the code inspects character by character (symbol names,    *)
(* document text) are sequences of one-character strings; keywords, which  *)
(* the code only copies, are one-element sequences holding the keyword.    *)
(***************************************************************************)
EXTENDS Integers, Sequences, FiniteSets, TLC

VARIABLES
    \* ---- CompletionProvider (specification Spec)
    maxSuggestions,      \* CompletionProvider.maxSuggestions
    parsedDocumentmap,   \* ParsedDocumentStore._parsedDocumentmap: uri -> document
    removedUris,         \* observation: uris removed from the store and not added again
    pc,                  \* "idle" | "responded": a completion response awaits the caller
    req,                 \* observation: the last provideCompletions request
    res,                 \* observation: what provideCompletions did and returned
    \* ---- ParsedDocument (specifications SpecDoc and SpecEdit)
    parsedDocument,      \* the document, its debounce timer and its change subscriber
    now,                 \* the clock, in ms
    applyCalls,          \* observation: number of applyChanges calls so far
    lastCallAt,          \* observation: the time of the last applyChanges call
    burst,               \* observation: every call so far came less than the debounce
                         \* window after the previous one, with no reparse in between
    lastOp,              \* observation: the last operation on the document
    ranBy,               \* observation: what ran the last reparse
    atCall,              \* observation: the last applyChanges call (text, tree
                         \* and notifications delivered before it, its changes)
    textAtReparse,       \* observation: the buffer text when the tree was last
                         \* built, by the constructor or by a reparse
    \* ---- ParsedDocumentStore with its documents (specification SpecStore)
    documents,           \* the ParsedDocument objects, by object id
    unsubscribeMap,      \* ParsedDocumentStore._unsubscribeMap: uri -> the document
                         \* whose subscription the stored Unsubscribe tears down
    forwarded,           \* observation: events received on the store's aggregate
                         \* change stream, counted by the document they carry
    storeOp,             \* observation: the last operation, its outcome and the
                         \* state it started from
    storeCalls,          \* observation: number of applyChanges calls so far
    \* ---- the tree queries of ParsedDocument (specification SpecTree)
    treeDocument,        \* a document: its text and its parse tree
    wraps,               \* number of phrases the parse put around runs of nodes
    treeOp,              \* observation: the last tree query, its arguments and
                         \* what it returned or raised
    \* ---- toNameCompletionItem (specification SpecName)
    nameOp               \* observation: the last call, its arguments and its item

completionVars == <<maxSuggestions, parsedDocumentmap, removedUris, pc, req, res>>

docVars ==
    <<parsedDocument, now, applyCalls, lastCallAt, burst, lastOp, ranBy, atCall,
      textAtReparse>>

storeVars == <<documents, unsubscribeMap, forwarded, storeOp, storeCalls>>

treeVars == <<treeDocument, wraps, treeOp>>

nameVars == <<nameOp>>

vars == <<completionVars, docVars, storeVars, treeVars, nameVars>>

----------------------------------------------------------------------------
\* Bounds of the model

\* largest configured maxSuggestions
MaxK == 2

\* largest number of symbols the symbol index offers for a name query
MaxMatches == 2

\* longest document text of SpecDoc
MaxDocLen == 2

\* most applyChanges calls on the document of SpecDoc
MaxCalls == 3

\* the clock advances in steps of TickMs up to MaxNow
TickMs == 125

MaxNow == 750

\* most applyChanges calls on the documents of SpecStore
MaxStoreCalls == 2

\* longest original text and largest batch of SpecEdit
MaxEditLen == 3

MaxBatch == 2

\* longest text of SpecTree and most phrases its parse puts around nodes
MaxTreeLen == 3

MaxWraps == 2

\* most applyChanges calls and latest time of SpecDocLive
MaxLiveCalls == 2

MaxLiveNow == 500

\* longest symbol name of SpecName
MaxNameLen == 3

----------------------------------------------------------------------------
\* Small helpers

Min(a, b) == IF a < b THEN a ELSE b

Range(s) == {s[i] : i \in 1..Len(s)}

RECURSIVE Concat(_)
Concat(ss) == IF Len(ss) = 0 THEN <<>> ELSE Head(ss) \o Concat(Tail(ss))

\* JavaScript truthiness of a bit mask, masks being sets of flags
Truthy(mask) == mask # {}

\* a & b and a | b on bit masks
BitAnd(a, b) == a \cap b

BitOr(a, b) == a \cup b

\* String.prototype.indexOf(prefix) === 0
IndexOfIsZero(str, prefix) ==
    /\ Len(prefix) <= Len(str)
    /\ SubSeq(str, 1, Len(prefix)) = prefix

\* String.prototype.slice(n)
Slice(str, n) == IF n >= Len(str) THEN <<>> ELSE SubSeq(str, n + 1, Len(str))

----------------------------------------------------------------------------
\* Syntax tree nodes and the traverser

Null == [k |-> "null", type |-> "null"]

Token(t) == [k |-> "token", type |-> t]

Phrase(p) == [k |-> "phrase", type |-> p]

\* ParsedDocument.isToken(node, types)
IsToken(node, types) == node.k = "token" /\ node.type \in types

\* ParsedDocument.isPhrase(node, types)
IsPhrase(node, types) == node.k = "phrase" /\ node.type \in types

\* TreeTraverser.node: the node at the cursor, null when the spine is empty
TraverserNode(spine) == IF Len(spine) = 0 THEN Null ELSE spine[Len(spine)]

\* TreeTraverser.parent(): moves the cursor to the parent and returns it; the
\* operator returns the spine after the move
TraverserParent(spine) ==
    IF Len(spine) = 0 THEN <<>> ELSE SubSeq(spine, 1, Len(spine) - 1)

\* TreeTraverser.ancestor(predicate): moves the cursor to the nearest proper
\* ancestor satisfying the predicate, or off the tree when there is none; the
\* predicate is given as the set of nodes it is true of
TraverserAncestor(spine, satisfying) ==
    LET hits == {n \in 1..(Len(spine) - 1) : spine[n] \in satisfying}
    IN  IF hits = {} THEN <<>>
        ELSE SubSeq(spine, 1, CHOOSE n \in hits : \A m \in hits : m <= n)

\* node.phraseType of a non-null node (undefined for a token)
PhraseTypeOf(node) == IF node.k = "phrase" THEN node.type ELSE "undefined"

QualifiedNameTypes == {"FullyQualifiedName", "QualifiedName", "RelativeQualifiedName"}

ScopedAccessPhrases ==
    {"ScopedCallExpression", "ErrorScopedAccessExpression",
     "ClassConstantAccessExpression", "ScopedPropertyAccessExpression"}

ObjectAccessPhrases == {"PropertyAccessExpression", "MethodCallExpression"}

----------------------------------------------------------------------------
\* Symbols

Symbol(kind, modifiers, name, associated) ==
    [kind |-> kind, modifiers |-> modifiers, name |-> name, associated |-> associated]

\* util.fuzzyStringMatch(text, name): the matcher is an external collaborator;
\* a request carries the set of names its query text matches
FuzzyStringMatch(matched, name) == name \in matched

\* the symbols the index holds for name queries, in the index's order
IndexSymbolAt(i) ==
    CASE i % 4 = 1 -> Symbol("Class", {}, <<"A", "\\", "B">>, <<>>)
      [] i % 4 = 2 -> Symbol("Function", {}, <<"B">>, <<>>)
      [] i % 4 = 3 -> Symbol("Class", {"Use"}, <<"C">>, << <<"A", "\\", "C">> >>)
      [] OTHER     -> Symbol("Class", {"Abstract"}, <<"A", "B">>, <<>>)

\* SymbolStore.match(text, filter): the first n symbols matching the text,
\* filtered; the filter is given as the set of symbols it accepts
IndexSymbols == {IndexSymbolAt(i) : i \in 1..4}

SymbolStoreMatch(n, accepted) ==
    SelectSeq([i \in 1..n |-> IndexSymbolAt(i)], LAMBDA s : s \in accepted)

----------------------------------------------------------------------------
\* Completion items and results

Item(label, kind, detail) == [label |-> label, kind |-> kind, detail |-> detail]

\* a CompletionList, with what the strategy asked of the symbol index:
\* the member queries it submitted and the number of candidates it had
CompletionList(items, isIncomplete, queries, total) ==
    [outcome |-> "returned", items |-> items, isIncomplete |-> isIncomplete,
     queries |-> queries, total |-> total]

noCompletionResponse == CompletionList(<<>>, FALSE, <<>>, 0)

\* an uncaught error leaving the strategy
Thrown(queries, total) ==
    [outcome |-> "threw", items |-> <<>>, isIncomplete |-> FALSE,
     queries |-> queries, total |-> total]

keywordCompletionItems(keywords, matched) ==
    LET hits == SelectSeq(keywords, LAMBDA kw : FuzzyStringMatch(matched, <<kw>>))
    IN  [n \in 1..Len(hits) |-> Item(<<hits[n]>>, "CompletionItemKind.Keyword", <<>>)]

symbolKindToLspSymbolKind(kind) ==
    CASE kind = "Class"    -> "SymbolKind.Class"
      [] kind = "Function" -> "SymbolKind.Function"
      [] kind = "Constant" -> "SymbolKind.Constant"
      [] OTHER             -> "SymbolKind.String"

toNameCompletionItem(s, namespace, namePhraseType, kind) ==
    LET inNamespace ==
            /\ Len(namespace) > 0
            /\ IndexOfIsZero(s.name, namespace)
            /\ Len(s.name) > Len(namespace) + 1
        notQualified ==
            /\ Len(namespace) > 0
            /\ namePhraseType # "FullyQualifiedName"
            /\ ~Truthy(BitAnd(s.modifiers, {"Use"}))
        imported ==
            /\ Truthy(BitAnd(s.modifiers, {"Use"}))
            /\ Len(s.associated) > 0
        label ==
            IF inNamespace THEN Slice(s.name, Len(namespace) + 1)
            ELSE IF notQualified THEN <<"\\">> \o s.name
            ELSE s.name
        detail ==
            IF ~inNamespace /\ ~notQualified /\ imported THEN s.associated[1]
            ELSE s.name
    IN  Item(label,
             IF kind = "undefined" THEN symbolKindToLspSymbolKind(s.kind) ELSE kind,
             detail)

toMethodCompletionItem(s) == Item(s.name, "CompletionItemKind.Method", <<>>)

toClassConstantCompletionItem(s) == Item(s.name, "CompletionItemKind.Value", <<>>)

toPropertyCompletionItem(s) ==
    Item(IF ~Truthy(BitAnd(s.modifiers, {"Static"})) THEN Slice(s.name, 1) ELSE s.name,
         "CompletionItemKind.Property", <<>>)

\* the loop "for (n = 0; n < limit; ++n) items.push(f(list[n]))", mapped being
\* the sequence of the f(list[n])
PushFirst(items, mapped, limit) ==
    items \o [n \in 1..(IF limit < 0 THEN 0 ELSE limit) |-> mapped[n]]

----------------------------------------------------------------------------
\* ClassTypeDesignatorCompletion

ClassTypeDesignatorKeywords == <<"class", "static", "namespace">>

ClassTypeDesignatorCanSuggest(context) ==
    LET s0 == context.spine
        s1 == TraverserParent(s0)
        s2 == TraverserParent(s1)
        s3 == TraverserParent(s2)
    IN  /\ IsToken(TraverserNode(s0), {"Backslash", "Name"})
        /\ IsPhrase(TraverserNode(s1), {"NamespaceName"})
        /\ IsPhrase(TraverserNode(s2), QualifiedNameTypes)
        /\ IsPhrase(TraverserNode(s3), {"ClassTypeDesignator"})

ClassTypeDesignatorSymbolFilter(s) ==
    /\ s.kind = "Class"
    /\ ~Truthy(BitAnd(s.modifiers, BitOr({"Anonymous"}, {"Abstract"})))

ClassTypeDesignatorCompletions(context, K) ==
    LET s1 == TraverserParent(context.spine)
        s2 == TraverserParent(s1)
        qNameNode == TraverserNode(s2)
        text == context.text
        items0 ==
            IF PhraseTypeOf(qNameNode) = "QualifiedName"
            THEN keywordCompletionItems(ClassTypeDesignatorKeywords, context.matched)
            ELSE <<>>
        matches == SymbolStoreMatch(context.nIndex,
                       {s \in IndexSymbols : ClassTypeDesignatorSymbolFilter(s)})
        limit == Min(Len(matches), K - Len(items0))
        isIncomplete == Len(matches) > K - Len(items0)
    IN  IF Len(text) = 0 THEN noCompletionResponse
        ELSE IF qNameNode = Null THEN Thrown(<<>>, 0)
        ELSE CompletionList(
                PushFirst(items0,
                    [n \in 1..Len(matches) |->
                        toNameCompletionItem(matches[n], context.namespaceName,
                            PhraseTypeOf(qNameNode), "SymbolKind.Constructor")],
                    limit),
                isIncomplete, <<>>, Len(items0) + Len(matches))

----------------------------------------------------------------------------
\* SimpleVariableCompletion

SimpleVariableCanSuggest(context) ==
    LET s0 == context.spine
        s1 == TraverserParent(s0)
    IN  /\ IsToken(TraverserNode(s0), {"Dollar", "VariableName"})
        /\ IsPhrase(TraverserNode(s1), {"SimpleVariable"})

\* context.scopeSymbol.children: the symbols declared in the enclosing scope
ScopeChildren ==
    << Symbol("Variable", {}, <<"$", "a">>, <<>>),
       Symbol("Function", {}, <<"$", "f">>, <<>>),
       Symbol("Parameter", {}, <<"$", "b">>, <<>>),
       Symbol("Variable", {}, <<"$", "a", "b">>, <<>>) >>

\* the built in global variables the index offers for the word
BuiltInGlobalVarAt(i) == Symbol("Variable", {}, <<"$", "_", "G">>, <<>>)

SimpleVariableToCompletionItem(s) == Item(s.name, "SymbolKind.Variable", <<>>)

SimpleVariableCompletions(context, K) ==
    LET text == context.word
        symbolMask == {"Variable", "Parameter"}
        scoped == SelectSeq(ScopeChildren,
                     LAMBDA x : x.kind \in symbolMask /\ IndexOfIsZero(x.name, text))
        varSymbols == scoped \o [i \in 1..context.nBuiltIn |-> BuiltInGlobalVarAt(i)]
        limit == Min(Len(varSymbols), K)
        isIncomplete == Len(varSymbols) > K
    IN  IF Len(text) = 0 THEN noCompletionResponse
        ELSE CompletionList(
                PushFirst(<<>>,
                    [n \in 1..Len(varSymbols) |->
                        SimpleVariableToCompletionItem(varSymbols[n])],
                    limit),
                isIncomplete, <<>>, Len(varSymbols))

----------------------------------------------------------------------------
\* NameCompletion

NameStatementKeywords ==
    << "__halt_compiler", "abstract", "break", "catch", "class", "const",
       "continue", "declare", "die", "do", "echo", "else", "elseif",
       "enddeclare", "endfor", "endforeach", "endif", "endswitch", "endwhile",
       "final", "finally", "for", "foreach", "function", "global", "goto", "if",
       "interface", "list", "namespace", "return", "static", "switch", "throw",
       "trait", "try", "unset", "use", "while" >>

NameExpressionKeywords ==
    << "array", "clone", "empty", "eval", "exit", "function", "include",
       "include_once", "isset", "new", "parent", "print", "require",
       "require_once", "static", "yield" >>

NameCanSuggest(context) ==
    LET s0 == context.spine
        s1 == TraverserParent(s0)
    IN  /\ IsToken(TraverserNode(s0), {"Backslash", "Name"})
        /\ IsPhrase(TraverserNode(s1), QualifiedNameTypes)

NameSymbolFilter(s) ==
    /\ s.kind \in {"Class", "Function", "Constant"}
    /\ ~Truthy(BitAnd(s.modifiers, {"Anonymous"}))

NameCompletions(context, K) ==
    LET s1 == TraverserParent(context.spine)
        s2 == TraverserParent(s1)
        s3 == TraverserParent(s2)
        qNameNode == TraverserNode(s2)
        qNameParent == TraverserNode(s3)
        text == context.text
        isQualified == PhraseTypeOf(qNameNode) = "QualifiedName"
        items0 ==
            IF isQualified
            THEN keywordCompletionItems(NameExpressionKeywords, context.matched)
                 \o (IF PhraseTypeOf(qNameParent) = "StatementList"
                     THEN keywordCompletionItems(NameStatementKeywords, context.matched)
                     ELSE <<>>)
            ELSE <<>>
        matches == SymbolStoreMatch(context.nIndex,
                       {s \in IndexSymbols : NameSymbolFilter(s)})
        limit == Min(Len(matches), K - Len(items0))
        isIncomplete == Len(matches) > K - Len(items0)
    IN  IF Len(text) = 0 THEN noCompletionResponse
        ELSE IF qNameNode = Null THEN Thrown(<<>>, 0)
        ELSE IF isQualified /\ qNameParent = Null THEN Thrown(<<>>, 0)
        ELSE CompletionList(
                PushFirst(items0,
                    [n \in 1..Len(matches) |->
                        toNameCompletionItem(matches[n], context.namespaceName,
                            PhraseTypeOf(qNameNode), "undefined")],
                    limit),
                isIncomplete, <<>>, Len(items0) + Len(matches))

----------------------------------------------------------------------------
\* Member lookup shared by the scoped (::) and object (->) access strategies

VisibilityName(v) ==
    CASE v = "Private" -> "f" [] v = "Protected" -> "h" [] OTHER -> "g"

\* member names of the index: a method is named by the letter of its
\* visibility, a property by "$" and that letter, a class constant by "K" and
\* that letter
MemberName(kind, v) ==
    CASE kind = "Property"      -> <<"$", VisibilityName(v)>>
      [] kind = "ClassConstant" -> <<"K", VisibilityName(v)>>
      [] OTHER                  -> <<VisibilityName(v)>>

\* the members the index holds for a class, in the index's order
ClassMembers(typeName) ==
    IF typeName = "B" THEN <<>>
    ELSE << Symbol("Method", {"Private"}, MemberName("Method", "Private"), <<>>),
            Symbol("Method", {"Public"}, MemberName("Method", "Public"), <<>>),
            Symbol("Method", {"Protected"}, MemberName("Method", "Protected"), <<>>),
            Symbol("Property", {"Private"}, MemberName("Property", "Private"), <<>>),
            Symbol("Property", {"Public"}, MemberName("Property", "Public"), <<>>),
            Symbol("Method", {"Public", "Static"}, MemberName("Method", "Public"), <<>>),
            Symbol("Method", {"Private", "Static"}, MemberName("Method", "Private"), <<>>),
            Symbol("Property", {"Protected", "Static"},
                   MemberName("Property", "Protected"), <<>>),
            Symbol("ClassConstant", {"Public"}, MemberName("ClassConstant", "Public"), <<>>),
            Symbol("ClassConstant", {"Private"},
                   MemberName("ClassConstant", "Private"), <<>>) >>

\* ---- ScopedAccessCompletion

ScopedMembersPredicate(matched, s) ==
    /\ \/ /\ Truthy(BitAnd({s.kind}, BitOr({"Method"}, {"Property"})))
          /\ Truthy(BitAnd(s.modifiers, {"Static"}))
       \/ s.kind = "ClassConstant"
    /\ ~Truthy(BitAnd(s.modifiers, BitOr({"Private"}, {"Protected"})))
    /\ FuzzyStringMatch(matched, s.name)

ScopedBaseMembersPredicate(matched, s) ==
    /\ \/ /\ Truthy(BitAnd({s.kind}, BitOr({"Method"}, {"Property"})))
          /\ Truthy(BitAnd(s.modifiers, {"Static"}))
       \/ s.kind = "ClassConstant"
    /\ ~Truthy(BitAnd(s.modifiers, {"Private"}))
    /\ FuzzyStringMatch(matched, s.name)

ScopedOwnMembersPredicate(matched, s) ==
    /\ \/ /\ Truthy(BitAnd({s.kind}, BitOr({"Method"}, {"Property"})))
          /\ Truthy(BitAnd(s.modifiers, {"Static"}))
       \/ s.kind = "ClassConstant"
    /\ FuzzyStringMatch(matched, s.name)

\* ---- ObjectAccessCompletion

ObjectMembersPredicate(matched, s) ==
    /\ Truthy(BitAnd({s.kind}, BitOr({"Method"}, {"Property"})))
    /\ ~Truthy(BitAnd(s.modifiers,
                      BitOr(BitOr({"Private"}, {"Protected"}), {"Static"})))
    /\ FuzzyStringMatch(matched, s.name)

\* "!(s.modifiers & SymbolModifier.Private | SymbolModifier.Static)":
\* & binds tighter than |
ObjectBaseMembersPredicate(matched, s) ==
    /\ Truthy(BitAnd({s.kind}, BitOr({"Method"}, {"Property"})))
    /\ ~Truthy(BitOr(BitAnd(s.modifiers, {"Private"}), {"Static"}))
    /\ FuzzyStringMatch(matched, s.name)

\* the own-class predicate without its static test
ObjectOwnMembersPredicateAnyStatic(matched, s) ==
    /\ Truthy(BitAnd({s.kind}, BitOr({"Method"}, {"Property"})))
    /\ FuzzyStringMatch(matched, s.name)

ObjectOwnMembersPredicate(matched, s) ==
    /\ Truthy(BitAnd({s.kind}, BitOr({"Method"}, {"Property"})))
    /\ ~Truthy(BitAnd(s.modifiers, {"Static"}))
    /\ FuzzyStringMatch(matched, s.name)

\* a member predicate applied to a symbol: the closure is named by the
\* strategy that built it and the tier it was built for
MemberPredicateAccepts(access, tier, matched, s) ==
    CASE access = "scoped" /\ tier = "own"    -> ScopedOwnMembersPredicate(matched, s)
      [] access = "scoped" /\ tier = "base"   -> ScopedBaseMembersPredicate(matched, s)
      [] access = "scoped" /\ tier = "member" -> ScopedMembersPredicate(matched, s)
      [] access = "object" /\ tier = "own"    -> ObjectOwnMembersPredicate(matched, s)
      [] access = "object" /\ tier = "base"   -> ObjectBaseMembersPredicate(matched, s)
      [] OTHER                                -> ObjectMembersPredicate(matched, s)

\* the choice without its thisBaseName branch
ScopedQueryPredicateNoBase(typeName, context) ==
    IF typeName = context.thisName THEN "own" ELSE "member"

\* ScopedAccessCompletion.completions: the loop over typeNames choosing
\* ownMemberPred / baseMemberPred / memberPred
ScopedQueryPredicate(typeName, context) ==
    IF typeName = context.thisName THEN "own"
    ELSE IF typeName = context.thisBaseName THEN "base"
    ELSE "member"

ScopedMemberQueries(typeNames, context) ==
    [n \in 1..Len(typeNames) |->
        [typeName |-> typeNames[n],
         memberPredicate |-> ScopedQueryPredicate(typeNames[n], context)]]

\* ObjectAccessCompletion.completions: the loop over typeNames choosing
\* ownPred / basePred / memberPred
ObjectQueryPredicate(typeName, context) ==
    IF typeName = context.thisName THEN "own"
    ELSE IF typeName = context.thisBaseName THEN "base"
    ELSE "member"

ObjectMemberQueries(typeNames, context) ==
    [n \in 1..Len(typeNames) |->
        [typeName |-> typeNames[n],
         memberPredicate |-> ObjectQueryPredicate(typeNames[n], context)]]

\* symbols an index that breaks its contract returns without asking the
\* predicates, before and after the members it looked up
NoForeign == [head |-> <<>>, tail |-> <<>>]

\* SymbolStore.lookupMembersOnTypes(memberQueries): for each query, in order,
\* the members of the named type that its predicate accepts
LookupMembersOnTypes(access, memberQueries, matched, foreign) ==
    foreign.head
    \o Concat([n \in 1..Len(memberQueries) |->
        SelectSeq(ClassMembers(memberQueries[n].typeName),
            LAMBDA s : MemberPredicateAccepts(access, memberQueries[n].memberPredicate,
                                              matched, s))])
    \o foreign.tail

NoType == <<"no type">>

IsScopedAccessExpr(node) == PhraseTypeOf(node) \in ScopedAccessPhrases

IsMemberAccessExpr(node) == PhraseTypeOf(node) \in ObjectAccessPhrases

ScopedAccessCanSuggest(context) ==
    LET s0 == context.spine
        s1 == TraverserParent(s0)
        s2 == TraverserParent(s1)
    IN  IF IsToken(TraverserNode(s0), {"ColonColon"})
        THEN IsPhrase(TraverserNode(s1), ScopedAccessPhrases)
        ELSE IF IsToken(TraverserNode(s0), {"VariableName"})
        THEN IsPhrase(TraverserNode(s1), {"ScopedMemberName"})
        ELSE IF IsToken(TraverserNode(s0), {"Dollar"})
        THEN /\ IsPhrase(TraverserNode(s1), {"SimpleVariable"})
             /\ IsPhrase(TraverserNode(s2), {"ScopedMemberName"})
        ELSE /\ IsPhrase(TraverserNode(s1), {"Identifier"})
             /\ IsPhrase(TraverserNode(s2), {"ScopedMemberName"})

ScopedCanPresent(s) == s.kind \in {"ClassConstant", "Method", "Property"}

ScopedToCompletionItem(s) ==
    CASE s.kind = "ClassConstant" -> toClassConstantCompletionItem(s)
      [] s.kind = "Method"        -> toMethodCompletionItem(s)
      [] OTHER                    -> toPropertyCompletionItem(s)

ScopedAccessCompletions(context, K) ==
    LET scopedAccessExpr ==
            TraverserNode(TraverserAncestor(context.spine,
                {x \in Range(context.spine) : IsScopedAccessExpr(x)}))
        typeNames == context.type
        memberQueries == ScopedMemberQueries(typeNames, context)
        symbols == LookupMembersOnTypes("scoped", memberQueries, context.matched,
                                        context.foreign)
        isIncomplete == Len(symbols) > K
        limit == Min(Len(symbols), K)
    IN  IF scopedAccessExpr = Null \/ context.type = NoType THEN Thrown(<<>>, 0)
        ELSE IF Len(typeNames) = 0 THEN noCompletionResponse
        ELSE IF \E n \in 1..limit : ~ScopedCanPresent(symbols[n])
        THEN Thrown(memberQueries, Len(symbols))
        ELSE CompletionList(PushFirst(<<>>,
                                [n \in 1..Len(symbols) |->
                                    ScopedToCompletionItem(symbols[n])],
                                limit),
                            isIncomplete, memberQueries, Len(symbols))

ObjectAccessCanSuggest(context) ==
    LET s0 == context.spine
        s1 == TraverserParent(s0)
    IN  IF IsToken(TraverserNode(s0), {"Arrow"})
        THEN IsPhrase(TraverserNode(s1), ObjectAccessPhrases)
        ELSE /\ IsToken(TraverserNode(s0), {"Name"})
             /\ IsPhrase(TraverserNode(s1), ObjectAccessPhrases)

ObjectCanPresent(s) == s.kind \in {"Method", "Property"}

ObjectToCompletionItem(s) ==
    CASE s.kind = "Method" -> toMethodCompletionItem(s)
      [] OTHER             -> toPropertyCompletionItem(s)

ObjectAccessCompletions(context, K) ==
    LET objAccessExpr ==
            TraverserNode(TraverserAncestor(context.spine,
                {x \in Range(context.spine) : IsMemberAccessExpr(x)}))
        typeNames == context.type
        memberQueries == ObjectMemberQueries(typeNames, context)
        symbols == LookupMembersOnTypes("object", memberQueries, context.matched,
                                        context.foreign)
        isIncomplete == Len(symbols) > K
        limit == Min(Len(symbols), K)
    IN  IF objAccessExpr = Null \/ context.type = NoType THEN Thrown(<<>>, 0)
        ELSE IF Len(typeNames) = 0 THEN noCompletionResponse
        ELSE IF \E n \in 1..limit : ~ObjectCanPresent(symbols[n])
        THEN Thrown(memberQueries, Len(symbols))
        ELSE CompletionList(PushFirst(<<>>,
                                [n \in 1..Len(symbols) |->
                                    ObjectToCompletionItem(symbols[n])],
                                limit),
                            isIncomplete, memberQueries, Len(symbols))

----------------------------------------------------------------------------
\* ParsedDocumentStore, as far as the completion provider uses it

Uris == {"a.php", "b.php"}

Undefined == [uri |-> "undefined"]

EmptyMap == [u \in {} |-> Undefined]

\* ParsedDocumentStore.has
StoreHas(map, uri) == uri \in DOMAIN map

\* ParsedDocumentStore.find
StoreFind(map, uri) == IF uri \in DOMAIN map THEN map[uri] ELSE Undefined

\* ParsedDocumentStore.add: "Duplicate key" is thrown for a registered uri
StoreAdd(map, doc) ==
    IF StoreHas(map, doc.uri) THEN map
    ELSE [u \in DOMAIN map \cup {doc.uri} |-> IF u = doc.uri THEN doc ELSE map[u]]

\* a removal that drops every entry of the map
StoreRemoveEveryEntry(map, uri) ==
    IF ~StoreHas(map, uri) THEN map ELSE EmptyMap

\* ParsedDocumentStore.remove
StoreRemove(map, uri) ==
    IF ~StoreHas(map, uri) THEN map
    ELSE [u \in DOMAIN map \ {uri} |-> map[u]]

----------------------------------------------------------------------------
\* CompletionProvider

Strategies ==
    << "ClassTypeDesignatorCompletion", "ScopedAccessCompletion",
       "ObjectAccessCompletion", "SimpleVariableCompletion", "NameCompletion" >>

CanSuggest(strategy, context) ==
    CASE strategy = "ClassTypeDesignatorCompletion" -> ClassTypeDesignatorCanSuggest(context)
      [] strategy = "ScopedAccessCompletion"        -> ScopedAccessCanSuggest(context)
      [] strategy = "ObjectAccessCompletion"        -> ObjectAccessCanSuggest(context)
      [] strategy = "SimpleVariableCompletion"      -> SimpleVariableCanSuggest(context)
      [] OTHER                                      -> NameCanSuggest(context)

Completions(strategy, context, K) ==
    CASE strategy = "ClassTypeDesignatorCompletion" -> ClassTypeDesignatorCompletions(context, K)
      [] strategy = "ScopedAccessCompletion"        -> ScopedAccessCompletions(context, K)
      [] strategy = "ObjectAccessCompletion"        -> ObjectAccessCompletions(context, K)
      [] strategy = "SimpleVariableCompletion"      -> SimpleVariableCompletions(context, K)
      [] OTHER                                      -> NameCompletions(context, K)

\* the loop of provideCompletions over this._strategies: the index of the
\* strategy chosen (0 for null) and the calls made, in order
RECURSIVE StrategyLoop(_, _, _)
StrategyLoop(context, n, calls) ==
    IF n > Len(Strategies) THEN [strategy |-> 0, calls |-> calls]
    ELSE IF CanSuggest(Strategies[n], context)
    THEN [strategy |-> n, calls |-> Append(calls, <<"canSuggest", n>>)]
    ELSE StrategyLoop(context, n + 1, Append(calls, <<"canSuggest", n>>))

\* the loop without its break: the last strategy whose canSuggest is true
SelectLastStrategy(context) ==
    LET matching == {n \in 1..Len(Strategies) : CanSuggest(Strategies[n], context)}
    IN  [strategy |-> IF matching = {} THEN 0
                      ELSE CHOOSE n \in matching : \A m \in matching : m <= n,
         calls |-> [n \in 1..Len(Strategies) |-> <<"canSuggest", n>>]]

SelectStrategy(context) == StrategyLoop(context, 1, <<>>)

\* provideCompletions without its "if (!doc)" return
provideCompletionsUnchecked(map, K, uri, context) ==
    LET sel == SelectStrategy(context)
    IN  IF sel.strategy # 0
        THEN [response |-> Completions(Strategies[sel.strategy], context, K),
              contextBuilt |-> TRUE, strategy |-> sel.strategy,
              calls |-> Append(sel.calls, <<"completions", sel.strategy>>)]
        ELSE [response |-> noCompletionResponse, contextBuilt |-> TRUE,
              strategy |-> 0, calls |-> sel.calls]

\* CompletionProvider.provideCompletions(uri, position); the context is the
\* Context that "new Context(symbolStore, doc, position)" builds
provideCompletions(map, K, uri, context) ==
    LET doc == StoreFind(map, uri)
        sel == SelectStrategy(context)
    IN  IF doc = Undefined
        THEN [response |-> noCompletionResponse, contextBuilt |-> FALSE,
              strategy |-> 0, calls |-> <<>>]
        ELSE IF sel.strategy # 0
        THEN [response |-> Completions(Strategies[sel.strategy], context, K),
              contextBuilt |-> TRUE, strategy |-> sel.strategy,
              calls |-> Append(sel.calls, <<"completions", sel.strategy>>)]
        ELSE [response |-> noCompletionResponse, contextBuilt |-> TRUE,
              strategy |-> 0, calls |-> sel.calls]

----------------------------------------------------------------------------
\* The requests the model issues: cursor positions and what the Context
\* collaborators answer there

Root == Phrase("StatementList")

CursorTokens ==
    {"Backslash", "Name", "ColonColon", "VariableName", "Dollar", "Arrow", "Whitespace"}

ParentTypes ==
    {"NamespaceName", "QualifiedName", "FullyQualifiedName", "SimpleVariable",
     "ScopedMemberName", "Identifier", "ScopedCallExpression",
     "PropertyAccessExpression", "ExpressionStatement"}

GrandParentTypes ==
    {"QualifiedName", "RelativeQualifiedName", "FullyQualifiedName",
     "ScopedMemberName", "ScopedCallExpression", "MethodCallExpression",
     "ExpressionStatement"}

GreatGrandParentTypes == {"ClassTypeDesignator", "ClassConstantAccessExpression"}

\* the ancestors of the cursor token below the root, outermost first
Chains ==
    {<<>>}
    \cup {<<Phrase(p1)>> : p1 \in ParentTypes}
    \cup {<<Phrase(p2), Phrase(p1)>> : p1 \in ParentTypes, p2 \in GrandParentTypes}
    \cup {<<Phrase(p3), Phrase(p2), Phrase(p1)>> :
             p1 \in ParentTypes, p2 \in GrandParentTypes, p3 \in GreatGrandParentTypes}

Spines == {<<Root>> \o c \o <<Token(t)>> : c \in Chains, t \in CursorTokens}

Context(spine, text, matched, nIndex, namespaceName, type, scope, word, nBuiltIn) ==
    [spine |-> spine, text |-> text, matched |-> matched, nIndex |-> nIndex,
     namespaceName |-> namespaceName, type |-> type,
     thisName |-> scope.thisName, thisBaseName |-> scope.thisBaseName,
     word |-> word, nBuiltIn |-> nBuiltIn, foreign |-> NoForeign]

NoClass == [thisName |-> "", thisBaseName |-> ""]

DefaultContext(spine) ==
    Context(spine, <<"t">>, {}, 0, <<>>, <<>>, NoClass, <<"$">>, 0)

\* the keywords the query text matches
KeywordMatchSets ==
    { {}, {<<"static">>}, {<<"static">>, <<"class">>},
      {<<"static">>, <<"class">>, <<"namespace">>, <<"new">>} }

NamesWithLetter(l) == {<<l>>, <<"$", l>>, <<"K", l>>}

\* the member names the query text matches
MemberMatchSets ==
    { {}, NamesWithLetter("f"), NamesWithLetter("g"),
      NamesWithLetter("f") \cup NamesWithLetter("g") \cup NamesWithLetter("h") }

\* the enclosing class of the cursor: none, class A, class B extends A
ClassScopes ==
    { NoClass, [thisName |-> "A", thisBaseName |-> ""],
      [thisName |-> "B", thisBaseName |-> "A"] }

\* what resolveExpressionType answers: no type, or the atomic class names
ExpressionTypes ==
    { NoType, <<>>, <<"A">>, <<"B">>, <<"C">>, <<"A", "B">>, <<"C", "A">> }

NameContexts(spine) ==
    {Context(spine, <<>>, {}, 0, <<>>, <<>>, NoClass, <<"$">>, 0)}
    \cup {Context(spine, <<"t">>, m, n, ns, <<>>, NoClass, <<"$">>, 0) :
             m \in KeywordMatchSets, n \in 0..MaxMatches, ns \in {<<>>, <<"A">>}}

\* what a broken index returns besides the members: a class, or a class
\* constant, first or last
ForeignSymbols ==
    {[head |-> h, tail |-> t] :
        h, t \in {<<>>, <<Symbol("Class", {}, <<"g">>, <<>>)>>,
                  <<Symbol("ClassConstant", {"Public"}, <<"K", "g">>, <<>>)>>}}
    \ {NoForeign}

WithForeign(context, foreign) ==
    [f \in DOMAIN context |-> IF f = "foreign" THEN foreign ELSE context[f]]

MemberContexts(spine) ==
    {Context(spine, <<"t">>, m, 0, <<>>, ty, sc, <<"$">>, 0) :
        m \in MemberMatchSets, ty \in ExpressionTypes, sc \in ClassScopes}
    \cup {WithForeign(Context(spine, <<"t">>, NamesWithLetter("g"), 0, <<>>, <<"A">>,
                              [thisName |-> "A", thisBaseName |-> ""], <<"$">>, 0),
                      foreign) : foreign \in ForeignSymbols}

VariableContexts(spine) ==
    {Context(spine, <<"t">>, {}, 0, <<>>, <<>>, NoClass, w, n) :
        w \in {<<>>, <<"$">>, <<"$", "a">>}, n \in 0..1}

\* the collaborators' answers are varied where a strategy reads them
ContextsAt(spine) ==
    LET c == DefaultContext(spine)
    IN  IF ClassTypeDesignatorCanSuggest(c) \/ NameCanSuggest(c) THEN NameContexts(spine)
        ELSE IF ScopedAccessCanSuggest(c) \/ ObjectAccessCanSuggest(c)
        THEN MemberContexts(spine)
        ELSE IF SimpleVariableCanSuggest(c) THEN VariableContexts(spine)
        ELSE {c}

Contexts == UNION {ContextsAt(spine) : spine \in Spines}

\* the positions of a short document, also asked about for a uri the store
\* does not hold
ProbeContexts ==
    { Context(<<Root, Phrase("ClassTypeDesignator"), Phrase("QualifiedName"),
                Phrase("NamespaceName"), Token("Name")>>,
              <<"t">>, {<<"static">>}, 1, <<>>, <<>>, NoClass, <<"$">>, 0),
      Context(<<Root, Phrase("ScopedCallExpression"), Token("ColonColon")>>,
              <<"t">>, NamesWithLetter("g"), 0, <<>>, <<"A">>, NoClass, <<"$">>, 0),
      DefaultContext(<<Root, Token("Whitespace")>>) }

\* a.php is the document under edit, b.php a short one
DocumentContexts(map, uri) ==
    IF uri \in DOMAIN map /\ uri = "a.php" THEN Contexts ELSE ProbeContexts

NoRequest == [uri |-> "", registered |-> {}, context |-> DefaultContext(<<>>)]

NoResult ==
    [response |-> noCompletionResponse, contextBuilt |-> FALSE,
     strategy |-> 0, calls |-> <<>>]

----------------------------------------------------------------------------
\* TextDocument: the text buffer, positions and range edits

Position(line, character) == [line |-> line, character |-> character]

\* the offsets at which the lines of the text start
LineOffsets(text) ==
    <<0>> \o SelectSeq([i \in 1..Len(text) |-> i], LAMBDA i : text[i] = "\n")

\* TextDocument.positionAtOffset
PositionAtOffset(text, offset) ==
    LET starts == LineOffsets(text)
        line == CHOOSE l \in 1..Len(starts) :
                    /\ starts[l] <= offset
                    /\ \A m \in 1..Len(starts) : starts[m] <= offset => m <= l
    IN  Position(line - 1, offset - starts[line])

\* TextDocument.offsetAtPosition: a position past the end addresses the end
OffsetAtPosition(text, pos) ==
    LET starts == LineOffsets(text)
    IN  IF pos.line + 1 > Len(starts) THEN Len(text)
        ELSE Min(starts[pos.line + 1] + pos.character, Len(text))

\* TextDocument.applyEdit(start, end, text)
ApplyEdit(text, start, end, replacement) ==
    LET startOffset == OffsetAtPosition(text, start)
        endOffset == OffsetAtPosition(text, end)
    IN  SubSeq(text, 1, startOffset) \o replacement
        \o SubSeq(text, (IF endOffset < startOffset THEN startOffset ELSE endOffset) + 1,
                  Len(text))

Change(start, end, replacement) ==
    [range |-> [start |-> start, end |-> end], text |-> replacement]

----------------------------------------------------------------------------
\* The parser: Parser.parse(text) yields a root phrase over the tokens of the
\* text, a token being a maximal run of newlines or of other characters

CharClass(ch) == IF ch = "\n" THEN "Whitespace" ELSE "Name"

RECURSIVE Tokenize(_, _, _)
Tokenize(text, from, tokens) ==
    IF from > Len(text) THEN tokens
    ELSE LET ends == {e \in from..Len(text) :
                         /\ \A i \in from..e : CharClass(text[i]) = CharClass(text[from])
                         /\ e = Len(text) \/ CharClass(text[e + 1]) # CharClass(text[from])}
             e == CHOOSE x \in ends : TRUE
         IN  Tokenize(text, e + 1,
                 Append(tokens, [tokenType |-> CharClass(text[from]),
                                 offset |-> from - 1, length |-> e - from + 1]))

Parse(text) == [phraseType |-> "StatementList", children |-> Tokenize(text, 1, <<>>)]

----------------------------------------------------------------------------
\* ParsedDocument with its Debounce, the runtime's timers and one subscriber
\* of its change event.  A document state is a record
\*   text          TextDocument.text
\*   parseTree     ParsedDocument._parseTree
\*   timer         Debounce._timer: the id of the pending timer, 0 for none
\*   queue         the runtime's scheduled timers, [id, due]
\*   reparses      number of runs of _reparse
\*   notifications number of change events the subscriber received
\*   delivered     the tree the subscriber saw at the last change event

textDocumentChangeDebounceWait == 250

NoTree == [phraseType |-> "none", children |-> <<>>]

\* new ParsedDocument(uri, text)
ParsedDocument(text) ==
    [text |-> text, parseTree |-> Parse(text), timer |-> 0, queue |-> {},
     reparses |-> 0, notifications |-> 0, delivered |-> NoTree]

\* Event.trigger({ parsedDocument: this }): the subscriber runs inline and
\* reads the document's tree
ChangeEventTrigger(d) ==
    [d EXCEPT !.notifications = d.notifications + 1, !.delivered = d.parseTree]

\* a _reparse that triggers the change event before it replaces the tree
ReparseNotifyingFirst(d) ==
    LET e == ChangeEventTrigger(d)
    IN  [e EXCEPT !.parseTree = Parse(d.text), !.reparses = d.reparses + 1]

\* ParsedDocument._reparse
Reparse(d) ==
    ChangeEventTrigger([d EXCEPT !.parseTree = Parse(d.text),
                                 !.reparses = d.reparses + 1])

\* Debounce.clear: clearTimeout of the pending timer
DebounceClear(d) ==
    [d EXCEPT !.queue = {t \in d.queue : t.id # d.timer}, !.timer = 0]

\* Debounce.handle(event): the pending timer is replaced by a new one
DebounceHandle(d, id, time) ==
    LET c == DebounceClear(d)
    IN  [c EXCEPT !.timer = id,
                  !.queue = c.queue \cup
                      {[id |-> id, due |-> time + textDocumentChangeDebounceWait]}]

\* Debounce.flush(): a pending handler runs now and its timer is cleared
DebounceFlush(d) == IF d.timer = 0 THEN d ELSE Reparse(DebounceClear(d))

\* a timer of the runtime fires: the debounced handler runs
DebounceTimerFired(d, id) ==
    Reparse([d EXCEPT !.queue = {t \in d.queue : t.id # id},
                      !.timer = IF d.timer = id THEN 0 ELSE d.timer])

\* a flush that leaves the pending reparse to its timer
FlushLeavesPending(d) == d

\* ParsedDocument.flush
Flush(d) == DebounceFlush(d)

\* ParsedDocument._textDocumentChangeCompareFn(a, b) < 0, = 0
CompareBefore(a, b) ==
    \/ a.range.end.line > b.range.end.line
    \/ /\ a.range.end.line = b.range.end.line
       /\ b.range.end.character - a.range.end.character < 0

\* contentChanges.sort(compareFn): a stable sort, equal elements keep their order
RECURSIVE SortChanges(_)
SortChanges(changes) ==
    IF Len(changes) <= 1 THEN changes
    ELSE LET rest == SortChanges(Tail(changes))
             x == Head(changes)
             \* x goes before the first element of rest that it does not follow
             k == Cardinality({i \in 1..Len(rest) :
                      \A j \in 1..i : CompareBefore(rest[j], x)})
         IN  SubSeq(rest, 1, k) \o <<x>> \o SubSeq(rest, k + 1, Len(rest))

\* the loop of applyChanges over the sorted changes
RECURSIVE ApplyEdits(_, _)
ApplyEdits(text, changes) ==
    IF Len(changes) = 0 THEN text
    ELSE ApplyEdits(ApplyEdit(text, Head(changes).range.start,
                              Head(changes).range.end, Head(changes).text),
                    Tail(changes))

\* an applyChanges that reparses on every call instead of debouncing
ApplyChangesEager(d, contentChanges, id, time) ==
    Reparse(DebounceHandle(
        [d EXCEPT !.text = ApplyEdits(d.text, SortChanges(contentChanges))], id, time))

\* ParsedDocument.applyChanges(contentChanges), called at the given time; the
\* timer it schedules is given the id
ApplyChanges(d, contentChanges, id, time) ==
    DebounceHandle([d EXCEPT !.text = ApplyEdits(d.text, SortChanges(contentChanges))],
                   id, time)

----------------------------------------------------------------------------
\* The edits the model issues

\* all texts over the alphabet up to the length
RECURSIVE TextsUpTo(_, _)
TextsUpTo(alphabet, n) ==
    IF n = 0 THEN {<<>>}
    ELSE LET shorter == TextsUpTo(alphabet, n - 1)
         IN  shorter \cup {Append(t, ch) : t \in shorter, ch \in alphabet}

\* the single range edits of a text, positions taken from its offsets
EditsOf(text, replacements) ==
    {Change(PositionAtOffset(text, s), PositionAtOffset(text, e), r) :
        s \in 0..Len(text), e \in 0..Len(text), r \in replacements} \
    {c \in {Change(PositionAtOffset(text, s), PositionAtOffset(text, e), r) :
               s \in 0..Len(text), e \in 0..Len(text), r \in replacements} :
        OffsetAtPosition(text, c.range.end) < OffsetAtPosition(text, c.range.start)}

DocAlphabet == {"a", "\n"}

\* the batches applied to the document of SpecDoc: empty or one edit
DocBatches(text) ==
    {<<>>} \cup {<<c>> : c \in EditsOf(text, {<<>>, <<"a">>, <<"\n">>})}

NoCall == [textBefore |-> <<>>, changes |-> <<>>, notifications |-> 0, tree |-> NoTree]

\* the document part of the state while another specification runs
DocUnused ==
    /\ parsedDocument = ParsedDocument(<<>>)
    /\ now = 0
    /\ applyCalls = 0
    /\ lastCallAt = 0
    /\ burst = TRUE
    /\ lastOp = "none"
    /\ ranBy = "none"
    /\ atCall = NoCall
    /\ textAtReparse = parsedDocument.text

----------------------------------------------------------------------------
\* ParsedDocumentStore with its documents: registration, change-event fan-in

\* the document objects: two were constructed for a.php, one for b.php
DocIds == {1, 2, 3}

\* parsedDocument.uri
DocUri(id) == IF id = 3 THEN "b.php" ELSE "a.php"

\* a document object as the store sees it: new ParsedDocument(uri, ""), with
\* the number of times _bubbleEvent is subscribed to its change event
StoreDocument(id) ==
    [uri |-> DocUri(id), handlers |-> 0] @@ ParsedDocument(<<>>)

\* Event.subscribe(handler)
EventSubscribe(d) == [d EXCEPT !.handlers = d.handlers + 1]

\* the Unsubscribe that subscribe returned: it removes the handler it added
EventUnsubscribe(d) ==
    [d EXCEPT !.handlers = IF d.handlers > 0 THEN d.handlers - 1 ELSE 0]

\* ParsedDocumentStore._bubbleEvent, run once per subscription for each change
\* event the document triggered between the states before and after
BubbleEvents(count, before, after) ==
    count + (after.notifications - before.notifications) * before.handlers

\* ParsedDocumentStore.count
StoreCount(map) == Cardinality(DOMAIN map)

\* the state a store operation works on and an error it raised
StoreState(map, unsubs, docs) ==
    [map |-> map, unsubscribeMap |-> unsubs, documents |-> docs, thrown |-> "none"]

\* add without its has() check
StoreAddOverwriting(st, id) ==
    [st EXCEPT
        !.map = [u \in DOMAIN st.map \cup {DocUri(id)} |->
                    IF u = DocUri(id) THEN [uri |-> DocUri(id), id |-> id]
                    ELSE st.map[u]],
        !.unsubscribeMap = [u \in DOMAIN st.unsubscribeMap \cup {DocUri(id)} |->
                               IF u = DocUri(id) THEN id ELSE st.unsubscribeMap[u]],
        !.documents = [st.documents EXCEPT ![id] = EventSubscribe(st.documents[id])]]

\* ParsedDocumentStore.add(parsedDocument), the whole method
StoreAddDocument(st, id) ==
    IF StoreHas(st.map, DocUri(id)) THEN [st EXCEPT !.thrown = "Duplicate key"]
    ELSE [st EXCEPT
        !.map = StoreAdd(st.map, [uri |-> DocUri(id), id |-> id]),
        !.unsubscribeMap = [u \in DOMAIN st.unsubscribeMap \cup {DocUri(id)} |->
                               IF u = DocUri(id) THEN id ELSE st.unsubscribeMap[u]],
        !.documents = [st.documents EXCEPT ![id] = EventSubscribe(st.documents[id])]]

\* remove that deletes the entry without calling its Unsubscribe
StoreRemoveKeepingSubscription(st, uri) ==
    [st EXCEPT !.map = StoreRemove(st.map, uri)]

\* ParsedDocumentStore.remove(uri), the whole method
StoreRemoveDocument(st, uri) ==
    IF ~StoreHas(st.map, uri) THEN st
    ELSE [st EXCEPT
        !.documents = [st.documents EXCEPT
                          ![st.unsubscribeMap[uri]] =
                              EventUnsubscribe(st.documents[st.unsubscribeMap[uri]])],
        !.map = StoreRemove(st.map, uri)]

\* ParsedDocument.tree
Tree(d) == d.parseTree

\* CompletionProvider.provideCompletions on the store's documents: the result,
\* the documents afterwards, and the tree the Context was built on
CompletionRequest(docs, map, K, uri, context) ==
    LET doc == StoreFind(map, uri)
    IN  [result |-> provideCompletions(map, K, uri, context),
         documents |-> docs,
         tree |-> IF doc = Undefined THEN NoTree ELSE Tree(docs[doc.id])]

\* the edit the model applies to a document of the store: insert "a" into an
\* empty buffer, empty a buffer that holds text
StoreEdit(text) ==
    IF Len(text) = 0 THEN <<Change(Position(0, 0), Position(0, 0), <<"a">>)>>
    ELSE <<Change(Position(0, 0), PositionAtOffset(text, Len(text)), <<>>)>>

NoStoreOp ==
    [op |-> "none", id |-> 0, uri |-> "", thrown |-> "none", map |-> EmptyMap,
     forwarded |-> 0, handlers |-> [id \in DocIds |-> 0], reparsed |-> FALSE,
     pending |-> FALSE, tree |-> NoTree]

\* the store part of the state while another specification runs
StoreUnused ==
    /\ documents = [id \in DocIds |-> StoreDocument(id)]
    /\ unsubscribeMap = EmptyMap
    /\ forwarded = [id \in DocIds |-> 0]
    /\ storeOp = NoStoreOp
    /\ storeCalls = 0

----------------------------------------------------------------------------
\* The tree queries of ParsedDocument: firstToken, lastToken, phraseRange,
\* tokenText, nodeText and createAnonymousName.  A node is a token
\* [tokenType, offset, length] or a phrase [phraseType, children]; Null is
\* the absent node.

\* ParsedDocument.isToken(node) without a list of types
IsTokenNode(node) == node # Null /\ "tokenType" \in DOMAIN node

\* the node and everything beneath it
RECURSIVE Descendants(_)
Descendants(node) ==
    IF IsTokenNode(node) THEN {node}
    ELSE {node} \cup UNION {Descendants(node.children[n]) : n \in 1..Len(node.children)}

\* ParsedDocument.lastToken(node)
RECURSIVE LastToken(_)
LastToken(node) ==
    IF IsTokenNode(node) THEN node
    ELSE LET found == {n \in 1..Len(node.children) :
                          LastToken(node.children[n]) # Null}
         IN  IF found = {} THEN Null
             ELSE LastToken(node.children[
                      CHOOSE n \in found : \A m \in found : m <= n])

\* a firstToken that walks the children from the right
FirstTokenFromRight(node) == LastToken(node)

\* ParsedDocument.firstToken(node)
RECURSIVE FirstToken(_)
FirstToken(node) ==
    IF IsTokenNode(node) THEN node
    ELSE LET found == {n \in 1..Len(node.children) :
                          FirstToken(node.children[n]) # Null}
         IN  IF found = {} THEN Null
             ELSE FirstToken(node.children[
                      CHOOSE n \in found : \A m \in found : n <= m])

\* ParsedDocument.phraseRange(p): Null when a token is missing at either end
PhraseRange(text, p) ==
    LET tFirst == FirstToken(p)
        tLast == LastToken(p)
    IN  IF tFirst = Null \/ tLast = Null THEN Null
        ELSE [start |-> PositionAtOffset(text, tFirst.offset),
              end |-> PositionAtOffset(text, tLast.offset + tLast.length)]

\* TextDocument.textAtOffset(offset, length)
TextAtOffset(text, offset, length) == SubSeq(text, offset + 1, offset + length)

\* ParsedDocument.tokenText(t)
TokenText(text, t) ==
    IF IsTokenNode(t) THEN TextAtOffset(text, t.offset, t.length) ELSE <<>>

\* the optional argument ignore of nodeText: a list of token types, or left out
Ignore(types) == [defined |-> TRUE, types |-> types]

NoIgnore == [defined |-> FALSE, types |-> <<>>]

\* new ToStringVisitor(doc, ignore): the constructor sets _text and _doc and
\* leaves _ignore as it was declared, undefined
ToStringVisitor(ignore) == [text |-> <<>>, ignore |-> NoIgnore]

\* ToStringVisitor.postOrder(node, spine)
ToStringVisitorPostOrder(text, visitor, node) ==
    IF /\ IsTokenNode(node)
       /\ \/ ~visitor.ignore.defined
          \/ node.tokenType \notin Range(visitor.ignore.types)
    THEN [visitor EXCEPT !.text = @ \o TokenText(text, node)]
    ELSE visitor

\* the order in which TreeTraverser.traverse hands nodes to postOrder
RECURSIVE PostOrder(_)
PostOrder(node) ==
    IF IsTokenNode(node) THEN <<node>>
    ELSE Concat([n \in 1..Len(node.children) |-> PostOrder(node.children[n])])
         \o <<node>>

\* TreeTraverser.traverse(visitor) over the nodes still to visit
RECURSIVE Traverse(_, _, _)
Traverse(text, visitor, nodes) ==
    IF Len(nodes) = 0 THEN visitor
    ELSE Traverse(text, ToStringVisitorPostOrder(text, visitor, Head(nodes)),
                  Tail(nodes))

\* ParsedDocument.nodeText(node, ignore)
NodeText(text, node, ignore) ==
    IF node = Null THEN <<>>
    ELSE Traverse(text, ToStringVisitor(ignore), PostOrder(node)).text

Digits == <<"0", "1", "2", "3", "4", "5", "6", "7", "8", "9">>

\* String(n) for a number n >= 0, as Array.prototype.join converts it
RECURSIVE NumberToString(_)
NumberToString(n) ==
    IF n < 10 THEN <<Digits[n + 1]>>
    ELSE NumberToString(n \div 10) \o <<Digits[(n % 10) + 1]>>

\* Array.prototype.join(separator) on an array of numbers
RECURSIVE Join(_, _)
Join(numbers, separator) ==
    IF Len(numbers) = 0 THEN <<>>
    ELSE IF Len(numbers) = 1 THEN NumberToString(numbers[1])
    ELSE NumberToString(numbers[1]) \o separator \o Join(Tail(numbers), separator)

AnonymousPrefix == <<"#", "a", "n", "o", "n", "y", "m", "o", "u", "s", "#">>

\* ParsedDocument.createAnonymousName(node): range.start is read without a
\* test of range, a TypeError when phraseRange returned null
CreateAnonymousName(text, node) ==
    LET range == PhraseRange(text, node)
    IN  IF range = Null THEN [thrown |-> "TypeError", name |-> <<>>]
        ELSE [thrown |-> "none",
              name |-> AnonymousPrefix
                       \o Join(<<range.start.line, range.start.character,
                                 range.end.line, range.end.character>>, <<"#">>)]

\* Parser.parse puts a run of adjacent children of the root, possibly an
\* empty run, under a new phrase
WrapChildren(tree, i, j) ==
    [tree EXCEPT !.children =
        SubSeq(@, 1, i - 1)
        \o <<[phraseType |-> IF j < i THEN "Error" ELSE "Expression",
              children |-> SubSeq(@, i, j)]>>
        \o SubSeq(@, j + 1, Len(@))]

\* new ParsedDocument(uri, text), as far as the tree queries read it
TreeDocument(text) == [text |-> text, parseTree |-> Parse(text)]

\* the argument lists given for ignore
IgnoreLists == {NoIgnore, Ignore(<<>>), Ignore(<<"Whitespace">>), Ignore(<<"Name">>)}

NoTreeOp == [op |-> "none", thrown |-> "none"]

\* the tree part of the state while another specification runs
TreeUnused ==
    /\ treeDocument = TreeDocument(<<>>)
    /\ wraps = 0
    /\ treeOp = NoTreeOp

----------------------------------------------------------------------------
\* The arguments of toNameCompletionItem

\* a name: segments of letters separated by single namespace separators
IsName(str) ==
    /\ Len(str) > 0
    /\ str[1] # "\\"
    /\ str[Len(str)] # "\\"
    /\ \A i \in 1..(Len(str) - 1) : ~(str[i] = "\\" /\ str[i + 1] = "\\")

NameAlphabet == {"A", "B", "\\"}

SymbolNames == {str \in TextsUpTo(NameAlphabet, MaxNameLen) : IsName(str)}

\* the current namespace: the global one, A, or AB
NamespaceNames == {<<>>, <<"A">>, <<"A", "B">>}

\* a class of that name, declared or imported from namespace B
NameSymbols ==
    {Symbol("Class", {}, name, <<>>) : name \in SymbolNames}
    \cup {Symbol("Class", {"Use"}, name, << <<"B", "\\">> \o name >>) :
              name \in SymbolNames}

NamePhraseTypes == {"FullyQualifiedName", "QualifiedName", "RelativeQualifiedName"}

NoNameOp == [op |-> "none"]

\* the name part of the state while another specification runs
NameUnused == nameOp = NoNameOp

----------------------------------------------------------------------------
\* Specification Spec: a completion provider over a document store

Init ==
    /\ maxSuggestions \in 1..MaxK
    /\ parsedDocumentmap = EmptyMap
    /\ removedUris = {}
    /\ pc = "idle"
    /\ req = NoRequest
    /\ res = NoResult
    /\ DocUnused
    /\ StoreUnused
    /\ TreeUnused
    /\ NameUnused

\* documentStore.add(new ParsedDocument(uri, text))
Add(uri) ==
    /\ pc = "idle"
    /\ parsedDocumentmap' = StoreAdd(parsedDocumentmap, [uri |-> uri])
    /\ removedUris' = removedUris \ {uri}
    /\ UNCHANGED <<maxSuggestions, pc, req, res, docVars, storeVars, treeVars, nameVars>>

\* documentStore.remove(uri)
Remove(uri) ==
    /\ pc = "idle"
    /\ parsedDocumentmap' = StoreRemove(parsedDocumentmap, uri)
    /\ removedUris' = IF StoreHas(parsedDocumentmap, uri)
                      THEN removedUris \cup {uri} ELSE removedUris
    /\ UNCHANGED <<maxSuggestions, pc, req, res, docVars, storeVars, treeVars, nameVars>>

\* completionProvider.provideCompletions(uri, position)
ProvideCompletions(uri) ==
    /\ pc = "idle"
    /\ \E context \in DocumentContexts(parsedDocumentmap, uri) :
          /\ req' = [uri |-> uri, registered |-> DOMAIN parsedDocumentmap,
                     context |-> context]
          /\ res' = provideCompletions(parsedDocumentmap, maxSuggestions, uri, context)
    /\ pc' = "responded"
    /\ UNCHANGED <<maxSuggestions, parsedDocumentmap, removedUris, docVars, storeVars, treeVars, nameVars>>

\* the caller takes the response
Respond ==
    /\ pc = "responded"
    /\ pc' = "idle"
    /\ req' = NoRequest
    /\ res' = NoResult
    /\ UNCHANGED <<maxSuggestions, parsedDocumentmap, removedUris, docVars, storeVars, treeVars, nameVars>>

Next ==
    \/ \E uri \in Uris : Add(uri)
    \/ \E uri \in Uris : Remove(uri)
    \/ \E uri \in Uris : ProvideCompletions(uri)
    \/ Respond

Spec == Init /\ [][Next]_vars

----------------------------------------------------------------------------
\* Properties of the completion provider (specification Spec)

Responded == pc = "responded"

\* the last request was for a uri the store held when it was made
Served == Responded /\ req.uri \in req.registered

StrategyIndex(name) == CHOOSE n \in 1..Len(Strategies) : Strategies[n] = name

\* the symbols member predicates are asked about
MemberUniverse ==
    {Symbol(k, m, n, <<>>) :
        k \in {"Method", "Property", "ClassConstant", "Class"},
        m \in SUBSET {"Public", "Protected", "Private", "Static"},
        n \in {<<"f">>, <<"g">>}}

\* C1: provideCompletions for a registered document asks the strategies in
\* list order, returns the completions of the first strategy whose canSuggest
\* is true and calls no other strategy's completions; when no canSuggest is
\* true it returns the empty, complete list.
C1_FirstMatchingStrategy ==
    Served =>
        LET matching ==
                {n \in 1..Len(Strategies) : CanSuggest(Strategies[n], req.context)}
        IN  IF matching = {}
            THEN /\ res.strategy = 0
                 /\ res.response = noCompletionResponse
                 /\ res.calls = [n \in 1..Len(Strategies) |-> <<"canSuggest", n>>]
            ELSE LET first == CHOOSE n \in matching : \A m \in matching : n <= m
                 IN  /\ res.strategy = first
                     /\ res.response =
                            Completions(Strategies[first], req.context, maxSuggestions)
                     /\ res.calls = [n \in 1..first |-> <<"canSuggest", n>>]
                                    \o << <<"completions", first>> >>

\* a served request at a position where two strategies' canSuggest are true
\* ($ of a simple variable in a scoped member name) and the earlier one answered
C1_Witness ==
    /\ Served
    /\ ScopedAccessCanSuggest(req.context)
    /\ SimpleVariableCanSuggest(req.context)
    /\ res.strategy = StrategyIndex("ScopedAccessCompletion")
    /\ Len(res.response.items) > 0

\* the cursor is on a Name or Backslash token whose ancestors are
\* NamespaceName, a qualified name and ClassTypeDesignator
OnClassTypeDesignatorName(spine) ==
    /\ Len(spine) >= 4
    /\ spine[Len(spine)] \in {Token("Name"), Token("Backslash")}
    /\ spine[Len(spine) - 1] = Phrase("NamespaceName")
    /\ spine[Len(spine) - 2] \in {Phrase(p) : p \in QualifiedNameTypes}
    /\ spine[Len(spine) - 3] = Phrase("ClassTypeDesignator")

\* C2: on a name token inside a class type designator the class-type-designator
\* strategy is selected (its canSuggest is true) although the general-name
\* strategy's canSuggest matches the same node shape.
C2_DispatchPrecedence ==
    (Served /\ OnClassTypeDesignatorName(req.context.spine)) =>
        /\ res.strategy = StrategyIndex("ClassTypeDesignatorCompletion")
        /\ ClassTypeDesignatorCanSuggest(req.context)
        /\ NameCanSuggest(req.context)

\* C3: provideCompletions for a uri the store does not hold (never added, or
\* removed) returns the empty, complete list, raises nothing, builds no Context
\* and calls no strategy.
C3_UnknownDocumentFailsClosed ==
    (Responded /\ req.uri \notin req.registered) =>
        /\ res.response = noCompletionResponse
        /\ res.response.outcome = "returned"
        /\ ~res.contextBuilt
        /\ res.calls = <<>>
        /\ res.strategy = 0

\* a request for a uri that was added and then removed has been answered
C3_Witness ==
    /\ Responded
    /\ req.uri \in removedUris
    /\ req.uri \notin req.registered
    /\ res.response = noCompletionResponse
    /\ CanSuggest("ClassTypeDesignatorCompletion", req.context)

\* C4: whatever strategy answered, with maximum K and M candidates the list
\* holds min(M, K) items and isIncomplete is true exactly when M > K.
C4_Truncation ==
    (Served /\ res.strategy # 0 /\ res.response.outcome = "returned") =>
        /\ Len(res.response.items) = Min(res.response.total, maxSuggestions)
        /\ Len(res.response.items) <= maxSuggestions
        /\ res.response.isIncomplete <=> res.response.total > maxSuggestions

\* the tier a type name falls in for the requesting scope
TierOf(typeName, context) ==
    IF typeName = context.thisName THEN "own"
    ELSE IF typeName = context.thisBaseName THEN "base"
    ELSE "unrelated"

\* the member queries the last request submitted to the symbol index
Queries == res.response.queries

AnsweredBy(name) == Served /\ res.strategy = StrategyIndex(name)

\* C5: in object access, the predicate queried for the base class of the
\* enclosing class accepts every matching non-static method or property that is
\* not private and rejects the private ones; the predicate queried for the
\* enclosing class accepts them all.  From scope B (extends A) on a value of
\* type A, a public method g is offered and a private method f is not.
C5_InstanceVisibilityTiers ==
    AnsweredBy("ObjectAccessCompletion") =>
        \A n \in 1..Len(Queries) : \A s \in MemberUniverse :
            LET tier == TierOf(Queries[n].typeName, req.context)
                accepts == MemberPredicateAccepts("object", Queries[n].memberPredicate,
                                                  req.context.matched, s)
            IN  (/\ s.kind \in {"Method", "Property"}
                 /\ "Static" \notin s.modifiers
                 /\ s.name \in req.context.matched)
                => /\ tier = "base" => (accepts <=> "Private" \notin s.modifiers)
                   /\ tier = "own" => accepts

\* C6: scoped access submits one member query per type name, in order; the
\* query for the enclosing class accepts members of any visibility, the query
\* for its declared base class all but private ones, the query for any other
\* type name only those neither private nor protected.
C6_StaticVisibilityTiers ==
    (AnsweredBy("ScopedAccessCompletion") /\ req.context.type # NoType
        /\ Len(TraverserAncestor(req.context.spine,
               {x \in Range(req.context.spine) : IsScopedAccessExpr(x)})) > 0) =>
        /\ Len(Queries) = Len(req.context.type)
        /\ \A n \in 1..Len(Queries) :
            /\ Queries[n].typeName = req.context.type[n]
            /\ \A s \in MemberUniverse :
                LET tier == TierOf(req.context.type[n], req.context)
                    accepts == MemberPredicateAccepts("scoped",
                                   Queries[n].memberPredicate, req.context.matched, s)
                IN  (/\ \/ s.kind \in {"Method", "Property"} /\ "Static" \in s.modifiers
                        \/ s.kind = "ClassConstant"
                     /\ s.name \in req.context.matched)
                    => accepts <=>
                        CASE tier = "own"  -> TRUE
                          [] tier = "base" -> "Private" \notin s.modifiers
                          [] OTHER         -> /\ "Private" \notin s.modifiers
                                              /\ "Protected" \notin s.modifiers

\* a scoped access on a union type C|A from class B extends A: an unrelated
\* and a base-class query, in that order, and members were offered
C6_Witness ==
    /\ AnsweredBy("ScopedAccessCompletion")
    /\ req.context.type = <<"C", "A">>
    /\ req.context.thisBaseName = "A"
    /\ Len(Queries) = 2
    /\ Queries[1].memberPredicate = "member"
    /\ Queries[2].memberPredicate = "base"
    /\ Len(res.response.items) > 0

\* C7: every predicate queried by scoped access accepts a method or property
\* only if it is static and accepts class constants that are not; every
\* predicate queried by object access accepts no static member and no class
\* constant.
C7_StaticInstanceSeparation ==
    /\ AnsweredBy("ScopedAccessCompletion") =>
        \A n \in 1..Len(Queries) : \A s \in MemberUniverse :
            LET accepts == MemberPredicateAccepts("scoped", Queries[n].memberPredicate,
                                                  req.context.matched, s)
            IN  /\ (accepts /\ s.kind \in {"Method", "Property"})
                        => "Static" \in s.modifiers
                /\ (/\ s.kind = "ClassConstant"
                    /\ s.modifiers = {"Public"}
                    /\ s.name \in req.context.matched) => accepts
                /\ accepts => s.kind \in {"Method", "Property", "ClassConstant"}
    /\ AnsweredBy("ObjectAccessCompletion") =>
        \A n \in 1..Len(Queries) : \A s \in MemberUniverse :
            MemberPredicateAccepts("object", Queries[n].memberPredicate,
                                   req.context.matched, s)
            => /\ "Static" \notin s.modifiers
               /\ s.kind \in {"Method", "Property"}

\* an object access inside class A on a value of type A, the text matching
\* both static and instance members named g: only instance members were offered
C7_Witness ==
    /\ AnsweredBy("ObjectAccessCompletion")
    /\ req.context.thisName = "A"
    /\ Len(Queries) = 1
    /\ Queries[1].memberPredicate = "own"
    /\ <<"g">> \in req.context.matched
    /\ Len(res.response.items) > 0
    /\ \E s \in Range(ClassMembers("A")) :
          s.name = <<"g">> /\ "Static" \in s.modifiers

----------------------------------------------------------------------------
\* Specification SpecEdit: one batch of non-overlapping range edits, all
\* addressed against the original text, is applied to a document

EditAlphabet == {"a", "\n"}

EditReplacements == {<<>>, <<"x">>, <<"y">>}

StartOffset(text, c) == OffsetAtPosition(text, c.range.start)

EndOffset(text, c) == OffsetAtPosition(text, c.range.end)

\* two edits of the text address ranges that do not overlap; ranges that only
\* touch, and insertions at the same offset, do not overlap
NonOverlapping(text, a, b) ==
    \/ EndOffset(text, a) <= StartOffset(text, b)
    \/ EndOffset(text, b) <= StartOffset(text, a)

\* the batches of up to n edits of the text, in every input order
RECURSIVE EditBatches(_, _)
EditBatches(text, n) ==
    IF n = 0 THEN {<<>>}
    ELSE LET shorter == EditBatches(text, n - 1)
         IN  shorter \cup
             {Append(b, c) : b \in {x \in shorter : Len(x) = n - 1},
                             c \in EditsOf(text, EditReplacements)}

PairwiseNonOverlapping(text, batch) ==
    \A i, j \in 1..Len(batch) : i # j => NonOverlapping(text, batch[i], batch[j])

EditIdle ==
    /\ maxSuggestions = 1
    /\ parsedDocumentmap = EmptyMap
    /\ removedUris = {}
    /\ pc = "idle"
    /\ req = NoRequest
    /\ res = NoResult
    /\ StoreUnused
    /\ TreeUnused
    /\ NameUnused

InitEdit ==
    /\ EditIdle
    /\ \E text \in TextsUpTo(EditAlphabet, MaxEditLen) :
           parsedDocument = ParsedDocument(text)
    /\ now = 0
    /\ applyCalls = 0
    /\ lastCallAt = 0
    /\ burst = TRUE
    /\ lastOp = "none"
    /\ ranBy = "none"
    /\ atCall = NoCall
    /\ textAtReparse = parsedDocument.text

\* parsedDocument.applyChanges(batch)
ApplyBatch ==
    /\ applyCalls = 0
    /\ \E batch \in EditBatches(parsedDocument.text, MaxBatch) :
          /\ PairwiseNonOverlapping(parsedDocument.text, batch)
          /\ parsedDocument' = ApplyChanges(parsedDocument, batch, 1, now)
          /\ atCall' = [textBefore |-> parsedDocument.text, changes |-> batch,
                        notifications |-> parsedDocument.notifications,
                        tree |-> parsedDocument.parseTree]
    /\ applyCalls' = 1
    /\ lastCallAt' = now
    /\ lastOp' = "applyChanges"
    /\ textAtReparse' = IF parsedDocument'.reparses > parsedDocument.reparses
                        THEN parsedDocument'.text ELSE textAtReparse
    /\ UNCHANGED <<now, burst, ranBy, completionVars, storeVars, treeVars, nameVars>>

NextEdit == ApplyBatch

SpecEdit == InitEdit /\ [][NextEdit]_vars

\* the reference: every addressed range of the original text replaced by its
\* replacement, the edits taken in document order
RECURSIVE ReplaceRanges(_, _, _)
ReplaceRanges(text, ordered, from) ==
    IF Len(ordered) = 0 THEN SubSeq(text, from + 1, Len(text))
    ELSE SubSeq(text, from + 1, StartOffset(text, Head(ordered)))
         \o Head(ordered).text
         \o ReplaceRanges(text, Tail(ordered), EndOffset(text, Head(ordered)))

InDocumentOrder(text, ordered) ==
    \A i \in 1..(Len(ordered) - 1) :
        /\ StartOffset(text, ordered[i]) <= StartOffset(text, ordered[i + 1])
        /\ EndOffset(text, ordered[i]) <= EndOffset(text, ordered[i + 1])

OrderingsOf(batch) ==
    {[i \in 1..Len(batch) |-> batch[f[i]]] :
        f \in {g \in [1..Len(batch) -> 1..Len(batch)] :
                  \A i, j \in 1..Len(batch) : i # j => g[i] # g[j]}}

\* insertions at one offset have no document order: either order is a reference
ReferenceTexts(text, batch) ==
    {ReplaceRanges(text, ordered, 0) :
        ordered \in {o \in OrderingsOf(batch) : InDocumentOrder(text, o)}}

\* C8: after applyChanges on a batch of pairwise non-overlapping edits, given in
\* any order, the buffer equals the reference text in which every addressed
\* range of the original text is replaced by its replacement.
C8_EditOrdering ==
    (lastOp = "applyChanges" /\ PairwiseNonOverlapping(atCall.textBefore, atCall.changes))
        => parsedDocument.text \in ReferenceTexts(atCall.textBefore, atCall.changes)

----------------------------------------------------------------------------
\* Specification SpecDoc: edits, flushes and timers on one document

DocIdle ==
    /\ maxSuggestions = 1
    /\ parsedDocumentmap = EmptyMap
    /\ removedUris = {}
    /\ pc = "idle"
    /\ req = NoRequest
    /\ res = NoResult
    /\ StoreUnused
    /\ TreeUnused
    /\ NameUnused

InitDoc ==
    /\ DocIdle
    /\ parsedDocument = ParsedDocument(<<>>)
    /\ now = 0
    /\ applyCalls = 0
    /\ lastCallAt = 0
    /\ burst = TRUE
    /\ lastOp = "none"
    /\ ranBy = "none"
    /\ atCall = NoCall
    /\ textAtReparse = parsedDocument.text

\* parsedDocument.applyChanges(batch) at the current time
DocApplyChanges ==
    /\ applyCalls < MaxCalls
    /\ now + textDocumentChangeDebounceWait <= MaxNow
    /\ \E batch \in DocBatches(parsedDocument.text) :
          /\ Len(ApplyEdits(parsedDocument.text, SortChanges(batch))) <= MaxDocLen
          /\ parsedDocument' = ApplyChanges(parsedDocument, batch, applyCalls + 1, now)
          /\ atCall' = [textBefore |-> parsedDocument.text, changes |-> batch,
                        notifications |-> parsedDocument.notifications,
                        tree |-> parsedDocument.parseTree]
    /\ applyCalls' = applyCalls + 1
    /\ lastCallAt' = now
    /\ burst' = (burst /\ (applyCalls = 0
                            \/ (/\ now - lastCallAt < textDocumentChangeDebounceWait
                                /\ parsedDocument.reparses = 0)))
    /\ lastOp' = "applyChanges"
    /\ textAtReparse' = IF parsedDocument'.reparses > parsedDocument.reparses
                        THEN parsedDocument'.text ELSE textAtReparse
    /\ UNCHANGED <<now, ranBy, completionVars, storeVars, treeVars, nameVars>>

\* parsedDocument.flush()
DocFlush ==
    /\ lastOp # "none"
    /\ parsedDocument' = Flush(parsedDocument)
    /\ lastOp' = IF lastOp = "applyChanges" THEN "flushAfterApply" ELSE "flush"
    /\ ranBy' = IF parsedDocument'.reparses > parsedDocument.reparses
                THEN "flush" ELSE ranBy
    /\ textAtReparse' = IF parsedDocument'.reparses > parsedDocument.reparses
                        THEN parsedDocument'.text ELSE textAtReparse
    /\ UNCHANGED <<now, applyCalls, lastCallAt, burst, atCall, completionVars, storeVars, treeVars, nameVars>>

\* a scheduled timer fires, at or after the time it is due
TimerFire ==
    /\ \E t \in parsedDocument.queue :
          /\ t.due <= now
          /\ parsedDocument' = DebounceTimerFired(parsedDocument, t.id)
    /\ lastOp' = "timer"
    /\ ranBy' = "timer"
    /\ textAtReparse' = parsedDocument'.text
    /\ UNCHANGED <<now, applyCalls, lastCallAt, burst, atCall, completionVars, storeVars, treeVars, nameVars>>

\* time passes
Tick ==
    /\ now + TickMs <= MaxNow
    /\ now' = now + TickMs
    /\ UNCHANGED <<parsedDocument, applyCalls, lastCallAt, burst, lastOp, ranBy,
                   atCall, textAtReparse, completionVars, storeVars, treeVars, nameVars>>

NextDoc ==
    \/ DocApplyChanges
    \/ DocFlush
    \/ TimerFire
    \/ Tick

SpecDoc == InitDoc /\ [][NextDoc]_vars

\* C9: while every applyChanges call so far came less than the debounce window
\* after the previous one (and no flush ran a reparse between two of them), the
\* calls cause at most one reparse, with one change notification per reparse;
\* until it has run exactly one timer is pending for it, due one window after
\* the last call; once it has run, either flush ran it or the window has
\* elapsed since the last call, and no timer is left to run a second one.
C9_DebounceCoalescing ==
    (applyCalls >= 1 /\ burst) =>
        /\ parsedDocument.reparses <= 1
        /\ parsedDocument.notifications = parsedDocument.reparses
        /\ parsedDocument.reparses = 0 =>
              /\ parsedDocument.timer # 0
              /\ parsedDocument.queue =
                     {[id |-> parsedDocument.timer,
                       due |-> lastCallAt + textDocumentChangeDebounceWait]}
        /\ parsedDocument.reparses = 1 =>
              /\ ranBy = "flush" \/ now >= lastCallAt + textDocumentChangeDebounceWait
              /\ parsedDocument.timer = 0
              /\ parsedDocument.queue = {}

\* a burst of two calls or more whose reparse flush ran, the window having
\* elapsed afterwards without a second reparse
C9_Witness ==
    /\ applyCalls >= 2
    /\ burst
    /\ ranBy = "flush"
    /\ parsedDocument.reparses = 1
    /\ parsedDocument.notifications = 1
    /\ now >= lastCallAt + textDocumentChangeDebounceWait + TickMs

\* C10: when flush() is called right after an applyChanges call, it returns
\* with the buffer holding the edits of that call, the tree equal to the parse
\* of the buffer, and one change notification delivered during the flush, its
\* subscriber having seen that tree.
C10_FlushYieldsCurrentTree ==
    lastOp = "flushAfterApply" =>
        /\ parsedDocument.text =
               ApplyEdits(atCall.textBefore, SortChanges(atCall.changes))
        /\ parsedDocument.parseTree = Parse(parsedDocument.text)
        /\ parsedDocument.notifications = atCall.notifications + 1
        /\ parsedDocument.delivered = parsedDocument.parseTree

\* a flush after the last of several calls, the tree before it being stale
C10_Witness ==
    /\ lastOp = "flushAfterApply"
    /\ applyCalls >= 2
    /\ parsedDocument.text # atCall.textBefore
    /\ Parse(atCall.textBefore) # Parse(parsedDocument.text)
    /\ parsedDocument.parseTree = Parse(parsedDocument.text)

\* C11: applyChanges changes the buffer and leaves the tree and the number of
\* change notifications as they were; at every moment the tree is the parse of
\* the buffer text as it was when the tree was last built (by the constructor
\* or by a reparse), whatever the buffer holds now.
C11_Staleness ==
    /\ parsedDocument.parseTree = Parse(textAtReparse)
    /\ lastOp = "applyChanges" =>
          /\ parsedDocument.text =
                 ApplyEdits(atCall.textBefore, SortChanges(atCall.changes))
          /\ parsedDocument.parseTree = atCall.tree
          /\ parsedDocument.notifications = atCall.notifications

\* after a reparse an edit has changed the buffer, and the tree is still that
\* of the text of the reparse, not of the buffer
C11_Witness ==
    /\ lastOp = "applyChanges"
    /\ parsedDocument.reparses >= 1
    /\ parsedDocument.text # textAtReparse
    /\ parsedDocument.parseTree = Parse(textAtReparse)
    /\ parsedDocument.parseTree # Parse(parsedDocument.text)

----------------------------------------------------------------------------
\* Specification SpecDocLive: the operations of SpecDoc over a shorter run,
\* where time passes while the clock is below its bound and the runtime
\* fires a timer that is due

\* parsedDocument.applyChanges(batch), while calls are left
LiveApplyChanges ==
    /\ applyCalls < MaxLiveCalls
    /\ now + textDocumentChangeDebounceWait <= MaxLiveNow
    /\ DocApplyChanges

\* time passes
LiveTick ==
    /\ now + TickMs <= MaxLiveNow
    /\ Tick

NextDocLive ==
    \/ LiveApplyChanges
    \/ DocFlush
    \/ TimerFire
    \/ LiveTick

SpecDocLive ==
    /\ InitDoc
    /\ [][NextDocLive]_vars
    /\ WF_vars(LiveTick)
    /\ WF_vars(TimerFire)

\* the tree is the parse of the buffer and no reparse is pending
TreeCurrent ==
    /\ parsedDocument.parseTree = Parse(parsedDocument.text)
    /\ parsedDocument.timer = 0

\* C23: after any number of applyChanges calls, unless a further call
\* arrives, the document reaches a state where the tree is the parse of the
\* buffer text and no reparse is pending; and whenever a change notification
\* has been delivered, its subscriber saw the tree rebuilt by that reparse.
C23_EventualConsistency ==
    /\ \A n \in 0..MaxLiveCalls :
          (applyCalls = n /\ ~TreeCurrent) ~> (applyCalls # n \/ TreeCurrent)
    /\ [](parsedDocument.notifications > 0 =>
              /\ parsedDocument.delivered = Parse(textAtReparse)
              /\ parsedDocument.delivered = parsedDocument.parseTree)

\* after two calls or more the timer rebuilt the tree of a changed buffer
\* and the subscriber saw it
C23_Witness ==
    /\ applyCalls >= 2
    /\ lastOp = "timer"
    /\ ranBy = "timer"
    /\ TreeCurrent
    /\ parsedDocument.text # <<>>
    /\ parsedDocument.notifications >= 1
    /\ parsedDocument.delivered = Parse(parsedDocument.text)

----------------------------------------------------------------------------
\* Specification SpecStore: documents are added to and removed from a store,
\* edited, reparsed by flush or timer, and asked for completions

InitStore ==
    /\ maxSuggestions = 1
    /\ parsedDocumentmap = EmptyMap
    /\ removedUris = {}
    /\ pc = "idle"
    /\ req = NoRequest
    /\ res = NoResult
    /\ DocUnused
    /\ StoreUnused
    /\ TreeUnused
    /\ NameUnused

\* what an operation on the document (0 for none) and uri started from
StoreOp(op, id, uri, thrown, reparsed, tree) ==
    [op |-> op, id |-> id, uri |-> uri, thrown |-> thrown,
     map |-> parsedDocumentmap,
     forwarded |-> IF id \in DocIds THEN forwarded[id] ELSE 0,
     handlers |-> [i \in DocIds |-> documents[i].handlers],
     reparsed |-> reparsed,
     pending |-> id \in DocIds /\ documents[id].timer # 0,
     tree |-> tree]

\* store.add(document)
StoreAddAction(id) ==
    /\ pc = "idle"
    /\ LET st == StoreAddDocument(
                     StoreState(parsedDocumentmap, unsubscribeMap, documents), id)
       IN  /\ parsedDocumentmap' = st.map
           /\ unsubscribeMap' = st.unsubscribeMap
           /\ documents' = st.documents
           /\ removedUris' = IF st.thrown = "none" THEN removedUris \ {DocUri(id)}
                             ELSE removedUris
           /\ storeOp' = StoreOp("add", id, DocUri(id), st.thrown, FALSE, NoTree)
    /\ UNCHANGED <<maxSuggestions, pc, req, res, forwarded, storeCalls, docVars, treeVars, nameVars>>

\* store.remove(uri)
StoreRemoveAction(uri) ==
    /\ pc = "idle"
    /\ LET st == StoreRemoveDocument(
                     StoreState(parsedDocumentmap, unsubscribeMap, documents), uri)
       IN  /\ parsedDocumentmap' = st.map
           /\ unsubscribeMap' = st.unsubscribeMap
           /\ documents' = st.documents
           /\ removedUris' = IF StoreHas(parsedDocumentmap, uri)
                             THEN removedUris \cup {uri} ELSE removedUris
           /\ storeOp' = StoreOp("remove", 0, uri, st.thrown, FALSE, NoTree)
    /\ UNCHANGED <<maxSuggestions, pc, req, res, forwarded, storeCalls, docVars, treeVars, nameVars>>

\* document.applyChanges(edit), on a document registered or not
StoreApplyChanges(id) ==
    /\ pc = "idle"
    /\ storeCalls < MaxStoreCalls
    /\ documents' = [documents EXCEPT
                        ![id] = ApplyChanges(@, StoreEdit(@.text), 1, 0)]
    /\ forwarded' = [forwarded EXCEPT
                        ![id] = BubbleEvents(@, documents[id], documents'[id])]
    /\ storeCalls' = storeCalls + 1
    /\ storeOp' = StoreOp("applyChanges", id, DocUri(id), "none",
                          documents'[id].reparses > documents[id].reparses, NoTree)
    /\ UNCHANGED <<completionVars, unsubscribeMap, docVars, treeVars, nameVars>>

\* document.flush()
StoreFlush(id) ==
    /\ pc = "idle"
    /\ documents' = [documents EXCEPT ![id] = Flush(@)]
    /\ forwarded' = [forwarded EXCEPT
                        ![id] = BubbleEvents(@, documents[id], documents'[id])]
    /\ storeOp' = StoreOp("flush", id, DocUri(id), "none",
                          documents'[id].reparses > documents[id].reparses, NoTree)
    /\ UNCHANGED <<completionVars, unsubscribeMap, storeCalls, docVars, treeVars, nameVars>>

\* the debounce timer of a document fires
StoreTimerFire(id) ==
    /\ pc = "idle"
    /\ \E t \in documents[id].queue :
          documents' = [documents EXCEPT ![id] = DebounceTimerFired(@, t.id)]
    /\ forwarded' = [forwarded EXCEPT
                        ![id] = BubbleEvents(@, documents[id], documents'[id])]
    /\ storeOp' = StoreOp("timer", id, DocUri(id), "none",
                          documents'[id].reparses > documents[id].reparses, NoTree)
    /\ UNCHANGED <<completionVars, unsubscribeMap, storeCalls, docVars, treeVars, nameVars>>

\* completionProvider.provideCompletions(uri, position)
StoreProvideCompletions(uri) ==
    /\ pc = "idle"
    /\ \E context \in ProbeContexts :
          LET r == CompletionRequest(documents, parsedDocumentmap, maxSuggestions,
                                     uri, context)
              doc == StoreFind(parsedDocumentmap, uri)
          IN  /\ req' = [uri |-> uri, registered |-> DOMAIN parsedDocumentmap,
                         context |-> context]
              /\ res' = r.result
              /\ documents' = r.documents
              /\ storeOp' = StoreOp("provideCompletions",
                                    IF doc = Undefined THEN 0 ELSE doc.id, uri,
                                    IF r.result.response.outcome = "threw"
                                    THEN "Error" ELSE "none",
                                    FALSE, r.tree)
    /\ pc' = "responded"
    /\ UNCHANGED <<maxSuggestions, parsedDocumentmap, removedUris, unsubscribeMap,
                   forwarded, storeCalls, docVars, treeVars, nameVars>>

NextStore ==
    \/ \E id \in DocIds : StoreAddAction(id)
    \/ \E uri \in Uris : StoreRemoveAction(uri)
    \/ \E id \in DocIds : StoreApplyChanges(id)
    \/ \E id \in DocIds : StoreFlush(id)
    \/ \E id \in DocIds : StoreTimerFire(id)
    \/ \E uri \in Uris : StoreProvideCompletions(uri)
    \/ Respond

SpecStore == InitStore /\ [][NextStore]_vars

----------------------------------------------------------------------------
\* Properties of the store and its documents (specification SpecStore)

\* the last operation was on a document that was registered when it started
OnRegisteredDocument ==
    /\ storeOp.id \in DocIds
    /\ StoreHas(storeOp.map, storeOp.uri)
    /\ storeOp.map[storeOp.uri].id = storeOp.id

\* C12: a completion request for a registered document with a pending reparse
\* builds its Context on the parse of the current buffer text, and no reparse
\* of the document is pending when the request returns.
C12_CompletionFlushesFirst ==
    (storeOp.op = "provideCompletions" /\ OnRegisteredDocument /\ storeOp.pending) =>
        /\ storeOp.tree = Parse(documents[storeOp.id].text)
        /\ documents[storeOp.id].timer = 0

\* C13: every entry of the store is the document of its uri, and an add for a
\* uri that is registered raises "Duplicate key" and changes nothing: find
\* returns the document it returned before, count is as before, and no
\* subscription was added to any document's change event, so the rejected
\* document's events are not forwarded.
C13_DuplicateAddRejected ==
    /\ \A uri \in DOMAIN parsedDocumentmap :
          /\ parsedDocumentmap[uri].uri = uri
          /\ DocUri(parsedDocumentmap[uri].id) = uri
    /\ (storeOp.op = "add" /\ StoreHas(storeOp.map, storeOp.uri)) =>
          /\ storeOp.thrown = "Duplicate key"
          /\ parsedDocumentmap = storeOp.map
          /\ StoreFind(parsedDocumentmap, storeOp.uri) = storeOp.map[storeOp.uri]
          /\ StoreCount(parsedDocumentmap) = StoreCount(storeOp.map)
          /\ \A i \in DocIds : documents[i].handlers = storeOp.handlers[i]
          /\ storeOp.map[storeOp.uri].id # storeOp.id =>
                documents[storeOp.id].handlers = 0

\* the second document of a.php was offered while the first is registered
C13_Witness ==
    /\ storeOp.op = "add"
    /\ storeOp.id = 2
    /\ storeOp.thrown = "Duplicate key"
    /\ StoreFind(parsedDocumentmap, "a.php") = [uri |-> "a.php", id |-> 1]
    /\ "b.php" \in DOMAIN parsedDocumentmap

\* C14: remove of a uri that is not registered changes nothing and raises
\* nothing; remove of a registered uri leaves find(uri) none, count one less,
\* every other document found as before and subscribed to; an add for a uri
\* that is not registered (never added, or removed) succeeds.
C14_Remove ==
    /\ (storeOp.op = "remove" /\ ~StoreHas(storeOp.map, storeOp.uri)) =>
          /\ storeOp.thrown = "none"
          /\ parsedDocumentmap = storeOp.map
          /\ \A i \in DocIds : documents[i].handlers = storeOp.handlers[i]
    /\ (storeOp.op = "remove" /\ StoreHas(storeOp.map, storeOp.uri)) =>
          /\ storeOp.thrown = "none"
          /\ StoreFind(parsedDocumentmap, storeOp.uri) = Undefined
          /\ StoreCount(parsedDocumentmap) = StoreCount(storeOp.map) - 1
          /\ \A u \in DOMAIN storeOp.map \ {storeOp.uri} :
                /\ StoreFind(parsedDocumentmap, u) = storeOp.map[u]
                /\ documents[storeOp.map[u].id].handlers = 1
    /\ (storeOp.op = "add" /\ ~StoreHas(storeOp.map, storeOp.uri)) =>
          /\ storeOp.thrown = "none"
          /\ StoreFind(parsedDocumentmap, storeOp.uri) =
                 [uri |-> storeOp.uri, id |-> storeOp.id]
          /\ StoreCount(parsedDocumentmap) = StoreCount(storeOp.map) + 1

\* a.php was removed while b.php is registered
C14_Witness ==
    /\ storeOp.op = "remove"
    /\ storeOp.uri = "a.php"
    /\ StoreHas(storeOp.map, "a.php")
    /\ "a.php" \in removedUris
    /\ StoreFind(parsedDocumentmap, "b.php") = [uri |-> "b.php", id |-> 3]
    /\ StoreCount(parsedDocumentmap) = 1

\* C15: every registered document is subscribed to exactly once, and a reparse
\* of a registered document puts exactly one event carrying it on the
\* aggregate stream, within the step of the reparse.
C15_ChangeEventFanIn ==
    /\ \A uri \in DOMAIN parsedDocumentmap :
          documents[parsedDocumentmap[uri].id].handlers = 1
    /\ (storeOp.reparsed /\ OnRegisteredDocument) =>
          forwarded[storeOp.id] = storeOp.forwarded + 1

\* the second document of a.php was reparsed by flush and forwarded once,
\* the first one having been registered, reparsed and removed before
C15_Witness ==
    /\ storeOp.op = "flush"
    /\ storeOp.reparsed
    /\ storeOp.id = 2
    /\ OnRegisteredDocument
    /\ forwarded[1] = 1
    /\ forwarded[2] = 1

\* the document is the one registered under its uri
Registered(id) ==
    /\ StoreHas(parsedDocumentmap, DocUri(id))
    /\ parsedDocumentmap[DocUri(id)].id = id

\* C22: a document that is not registered, removed ones included, has no
\* forwarding handler on its change event, and a reparse of it, by its timer
\* or by flush, puts no event on the store's aggregate change stream.
C22_UnsubscribeOnRemove ==
    /\ \A id \in DocIds : ~Registered(id) => documents[id].handlers = 0
    /\ (storeOp.reparsed /\ storeOp.id \in DocIds /\ ~OnRegisteredDocument) =>
          forwarded[storeOp.id] = storeOp.forwarded

\* the timer of the first document of a.php fired and reparsed it after the
\* document had been added and removed
C22_Witness ==
    /\ storeOp.op = "timer"
    /\ storeOp.reparsed
    /\ storeOp.id = 1
    /\ ~StoreHas(storeOp.map, "a.php")
    /\ "a.php" \in removedUris
    /\ unsubscribeMap["a.php"] = 1
    /\ documents[1].notifications = 1
    /\ forwarded[1] = 0

----------------------------------------------------------------------------
\* Properties of the access strategies' failure behaviour (specification Spec)

\* the accessed expression was found and its type has atomic class names
TypeDetermined ==
    /\ req.context.type # NoType
    /\ Len(req.context.type) > 0

\* the symbols the index returned to the strategy that answered
ReturnedSymbols(access) ==
    LookupMembersOnTypes(access, Queries, req.context.matched, req.context.foreign)

\* C16: when the index returns to scoped access a symbol that is no class
\* constant, method or property, or to object access a symbol that is no
\* method or property, the request raises instead of returning a result, and
\* the store holds the documents it held.
C16_FatalContractViolation ==
    /\ (/\ AnsweredBy("ScopedAccessCompletion")
        /\ TypeDetermined
        /\ \E s \in Range(ReturnedSymbols("scoped")) : ~ScopedCanPresent(s))
       => /\ res.response.outcome = "threw"
          /\ DOMAIN parsedDocumentmap = req.registered
    /\ (/\ AnsweredBy("ObjectAccessCompletion")
        /\ TypeDetermined
        /\ \E s \in Range(ReturnedSymbols("object")) : ~ObjectCanPresent(s))
       => /\ res.response.outcome = "threw"
          /\ DOMAIN parsedDocumentmap = req.registered

\* the access strategy that answered found the expression it completes
AccessExpressionFound ==
    \/ /\ AnsweredBy("ScopedAccessCompletion")
       /\ Len(TraverserAncestor(req.context.spine,
               {x \in Range(req.context.spine) : IsScopedAccessExpr(x)})) > 0
    \/ /\ AnsweredBy("ObjectAccessCompletion")
       /\ Len(TraverserAncestor(req.context.spine,
               {x \in Range(req.context.spine) : IsMemberAccessExpr(x)})) > 0

\* C17: when the type of the accessed expression is not determinable (no type
\* value, or a type without atomic class names), scoped and object access
\* return the empty, complete list, raise nothing and submit no member query.
C17_NoDeterminableType ==
    (AccessExpressionFound /\ ~TypeDetermined) =>
        /\ res.response.outcome = "returned"
        /\ res.response.items = <<>>
        /\ ~res.response.isIncomplete
        /\ res.response.queries = <<>>

----------------------------------------------------------------------------
\* Specification SpecTree: a text is parsed into a tree of tokens and
\* phrases, and the tree is queried

InitTree ==
    /\ maxSuggestions = 1
    /\ parsedDocumentmap = EmptyMap
    /\ removedUris = {}
    /\ pc = "idle"
    /\ req = NoRequest
    /\ res = NoResult
    /\ DocUnused
    /\ StoreUnused
    /\ NameUnused
    /\ \E text \in TextsUpTo(DocAlphabet, MaxTreeLen) :
           treeDocument = TreeDocument(text)
    /\ wraps = 0
    /\ treeOp = NoTreeOp

\* the nodes of the document's tree
TreeNodes == Descendants(treeDocument.parseTree)

TreePhrases == {node \in TreeNodes : ~IsTokenNode(node)}

\* the parse groups children i..j of the root under a phrase
TreeParseStep(i, j) ==
    /\ treeOp = NoTreeOp
    /\ wraps < MaxWraps
    /\ treeDocument' = [treeDocument EXCEPT !.parseTree = WrapChildren(@, i, j)]
    /\ wraps' = wraps + 1
    /\ UNCHANGED <<treeOp, completionVars, docVars, storeVars, nameVars>>

\* parsedDocument.nodeText(node, ignore)
TreeNodeText(node, ignore) ==
    /\ treeOp = NoTreeOp
    /\ treeOp' = [op |-> "nodeText", thrown |-> "none", node |-> node,
                  ignore |-> ignore,
                  text |-> NodeText(treeDocument.text, node, ignore)]
    /\ UNCHANGED <<treeDocument, wraps, completionVars, docVars, storeVars, nameVars>>

\* parsedDocument.firstToken(node), lastToken(node) and phraseRange(node)
TreePhraseRange(node) ==
    /\ treeOp = NoTreeOp
    /\ treeOp' = [op |-> "phraseRange", thrown |-> "none", node |-> node,
                  first |-> FirstToken(node), last |-> LastToken(node),
                  range |-> PhraseRange(treeDocument.text, node)]
    /\ UNCHANGED <<treeDocument, wraps, completionVars, docVars, storeVars, nameVars>>

\* parsedDocument.createAnonymousName(node) and createAnonymousName(other)
TreeCreateAnonymousName(node, other) ==
    /\ treeOp = NoTreeOp
    /\ LET a == CreateAnonymousName(treeDocument.text, node)
           b == CreateAnonymousName(treeDocument.text, other)
       IN  treeOp' = [op |-> "createAnonymousName", thrown |-> a.thrown,
                      node |-> node, name |-> a.name, other |-> other,
                      otherThrown |-> b.thrown, otherName |-> b.name]
    /\ UNCHANGED <<treeDocument, wraps, completionVars, docVars, storeVars, nameVars>>

\* the caller takes the result
TreeReturn ==
    /\ treeOp # NoTreeOp
    /\ treeOp' = NoTreeOp
    /\ UNCHANGED <<treeDocument, wraps, completionVars, docVars, storeVars, nameVars>>

NextTree ==
    \/ \E i \in 1..(Len(treeDocument.parseTree.children) + 1) :
           \E j \in (i - 1)..Len(treeDocument.parseTree.children) :
               TreeParseStep(i, j)
    \/ \E node \in TreeNodes \cup {Null} : \E ignore \in IgnoreLists :
           TreeNodeText(node, ignore)
    \/ \E node \in TreeNodes : TreePhraseRange(node)
    \/ \E node, other \in TreePhrases : TreeCreateAnonymousName(node, other)
    \/ TreeReturn

SpecTree == InitTree /\ [][NextTree]_vars

----------------------------------------------------------------------------
\* Properties of the tree queries (specification SpecTree)

\* the tokens beneath a node, the node included
TokensUnder(node) ==
    IF node = Null THEN {} ELSE {t \in Descendants(node) : IsTokenNode(t)}

\* the characters of the text that lie in one of the tokens, in text order
CoveredText(text, tokens) ==
    LET inside == SelectSeq([i \in 1..Len(text) |-> i],
                      LAMBDA i : \E t \in tokens :
                          t.offset < i /\ i <= t.offset + t.length)
    IN  [k \in 1..Len(inside) |-> text[inside[k]]]

\* the tokens beneath the node asked for whose type the call does not ignore
KeptTokens ==
    {t \in TokensUnder(treeOp.node) :
        ~treeOp.ignore.defined \/ t.tokenType \notin Range(treeOp.ignore.types)}

\* C18: nodeText(node, ignoreTypes) returns the text of exactly the tokens
\* under node whose type is not in ignoreTypes, in document order; tokens of
\* an ignored type contribute nothing, and an absent node gives the empty
\* string.
C18_NodeText ==
    treeOp.op = "nodeText" =>
        treeOp.text = CoveredText(treeDocument.text, KeptTokens)

\* the offsets of the tokens beneath a node never decrease from left to right
OffsetsNonDecreasing(node) ==
    LET tokens == SelectSeq(PostOrder(node), LAMBDA n : IsTokenNode(n))
    IN  \A i, j \in 1..Len(tokens) : i <= j => tokens[i].offset <= tokens[j].offset

\* C19: for a node with at least one token beneath it, in a tree whose
\* offsets are non-decreasing left to right, firstToken is a descendant token
\* with the least offset and lastToken a descendant token with the greatest
\* offset + length; for a phrase with no token beneath it firstToken and
\* lastToken return none and phraseRange returns none without raising.
C19_RangeSoundness ==
    treeOp.op = "phraseRange" =>
        LET tokens == TokensUnder(treeOp.node)
        IN  /\ treeOp.thrown = "none"
            /\ (tokens # {} /\ OffsetsNonDecreasing(treeOp.node)) =>
                   /\ treeOp.first \in tokens
                   /\ \A t \in tokens : treeOp.first.offset <= t.offset
                   /\ treeOp.last \in tokens
                   /\ \A t \in tokens :
                          treeOp.last.offset + treeOp.last.length
                              >= t.offset + t.length
            /\ tokens = {} =>
                   /\ treeOp.first = Null
                   /\ treeOp.last = Null
                   /\ treeOp.range = Null

\* the ends of a phrase were asked for that holds several tokens behind a
\* first child without any token
C19_Witness ==
    /\ treeOp.op = "phraseRange"
    /\ ~IsTokenNode(treeOp.node)
    /\ Cardinality(TokensUnder(treeOp.node)) >= 2
    /\ TokensUnder(treeOp.node.children[1]) = {}
    /\ OffsetsNonDecreasing(treeOp.node)
    /\ treeOp.first # treeOp.last
    /\ treeOp.range # Null

\* the four coordinates of the range of a phrase, none for a phrase without
\* a token beneath it
RangeCoordinates(text, node) ==
    LET range == PhraseRange(text, node)
    IN  IF range = Null THEN <<>>
        ELSE <<range.start.line, range.start.character,
               range.end.line, range.end.character>>

\* C20: createAnonymousName gives two phrases the same identifier when their
\* ranges agree in start line, start character, end line and end character,
\* different identifiers when one of the four differs, and raises nothing
\* for a phrase that has no token beneath it.
C20_AnonymousName ==
    treeOp.op = "createAnonymousName" =>
        /\ treeOp.thrown = "none"
        /\ treeOp.otherThrown = "none"
        /\ (RangeCoordinates(treeDocument.text, treeOp.node)
               = RangeCoordinates(treeDocument.text, treeOp.other))
           <=> (treeOp.name = treeOp.otherName)

----------------------------------------------------------------------------
\* Specification SpecName: toNameCompletionItem is called on a symbol, in a
\* namespace, under a name phrase

InitName ==
    /\ maxSuggestions = 1
    /\ parsedDocumentmap = EmptyMap
    /\ removedUris = {}
    /\ pc = "idle"
    /\ req = NoRequest
    /\ res = NoResult
    /\ DocUnused
    /\ StoreUnused
    /\ TreeUnused
    /\ nameOp = NoNameOp

\* toNameCompletionItem(s, namespace, namePhraseType, kind)
NameCompletionItem(s, namespace, namePhraseType, kind) ==
    /\ nameOp = NoNameOp
    /\ nameOp' = [op |-> "toNameCompletionItem", s |-> s, namespace |-> namespace,
                  namePhraseType |-> namePhraseType,
                  item |-> toNameCompletionItem(s, namespace, namePhraseType, kind)]
    /\ UNCHANGED <<completionVars, docVars, storeVars, treeVars>>

\* the caller takes the item
NameReturn ==
    /\ nameOp # NoNameOp
    /\ nameOp' = NoNameOp
    /\ UNCHANGED <<completionVars, docVars, storeVars, treeVars>>

NextName ==
    \/ \E s \in NameSymbols, namespace \in NamespaceNames,
          namePhraseType \in NamePhraseTypes,
          kind \in {"undefined", "SymbolKind.Constructor"} :
           NameCompletionItem(s, namespace, namePhraseType, kind)
    \/ NameReturn

SpecName == InitName /\ [][NextName]_vars

----------------------------------------------------------------------------
\* Properties of the name items (specification SpecName)

\* the symbol lies in the namespace: the namespace is the global one, or the
\* name is the namespace, a separator and more
InNamespace(name, namespace) ==
    \/ namespace = <<>>
    \/ /\ Len(name) > Len(namespace) + 1
       /\ SubSeq(name, 1, Len(namespace) + 1) = namespace \o <<"\\">>

\* the name without the namespace and the separator after it
WithoutNamespace(name, namespace) ==
    IF namespace = <<>> THEN name
    ELSE SubSeq(name, Len(namespace) + 2, Len(name))

IsImportAlias(s) == "Use" \in s.modifiers /\ Len(s.associated) > 0

\* C21: the label of a name item is the name without the current namespace
\* when the symbol's name is prefixed by it; otherwise for an import alias
\* the detail is the aliased name and the label the name; otherwise, under a
\* name that is not fully qualified, the label is the name behind a leading
\* namespace separator.
C21_NameShortening ==
    nameOp.op = "toNameCompletionItem" =>
        LET s == nameOp.s
            namespace == nameOp.namespace
        IN  IF InNamespace(s.name, namespace)
            THEN nameOp.item.label = WithoutNamespace(s.name, namespace)
            ELSE IF IsImportAlias(s)
            THEN /\ nameOp.item.detail = s.associated[1]
                 /\ nameOp.item.label = s.name
            ELSE nameOp.namePhraseType # "FullyQualifiedName" =>
                     nameOp.item.label = <<"\\">> \o s.name

====
